---- MODULE Spec2Model ----
(***************************************************************************)
(* Model of the OptiMax judge (src/judge.py): loading and classifying the  *)
(* two solver variants' outputs, the programmatic fast-path, the LLM       *)
(* comparison, the sanity-check override and the verdict; of the judge and *)
(* report steps of the end-to-end run (src/main.py); and of the OptiMind   *)
(* execute-and-repair loop (src/backend/optimind.py); of the LLM gateway's *)
(* retry (src/optimus_utils.py), an OptiMUS extractor, the two solver      *)
(* worker threads of the run and the OptiMUS thread-safe logger; of the    *)
(* judge's trimming of solver output, the workspace archive                *)
(* (src/query_manager.py), the OptiMind generation step, the JSON          *)
(* extractor of the gateway and the OptiMUS pipeline with create_state     *)
(* (src/optimus.py, src/backend/optimus.py).                               *)
(*                                                                         *)
(* Python values are encoded so that every variable has one TLA+ type:     *)
(*   - an optional value is a sequence: None is <<>>, a value x is <<x>>;  *)
(*   - a text is a sequence of tokens (strings); a substring test          *)
(*     `marker in text` is a test for a contiguous run of tokens;          *)
(*   - str.upper() maps every token to its upper-case token.               *)
(***************************************************************************)
EXTENDS Integers, Sequences, FiniteSets, TLC

VARIABLES
    fs,            \* the problem directory on disk (inputs of compare_solutions)
    pc,            \* position of the running function
    optimus,       \* loaded OptiMUS output (optional record)
    optimind,      \* loaded OptiMind output (optional record)
    prog,          \* result of _programmatic_winner: [winner, reason]
    llmResp,       \* the text the LLM returned (optional)
    comparison,    \* the comparison dict of compare_solutions (optional)
    winner_name,   \* local winner_name of compare_solutions (optional)
    sanity,        \* arguments and result of the _sanity_check call (optional)
    llmCalls,      \* number of get_response calls made
    verdictFile,   \* verdict.json written by this run (optional)
    error,         \* exception raised to the caller ("" when none)
    args,          \* arguments of a directly called function
    result,        \* its return value (optional)
    mainPc,        \* position of main.run ("idle" when it is not running)
    mainVerdict,   \* local verdict of main.run (optional)
    report,        \* outcome of generate_report ("" before it ran)
    exitStatus,    \* exit status of the process (optional)
    disk,          \* the files of optimind_output/
    loopCode,      \* local code of _execute_and_debug
    loopOutput,    \* local code_output of _execute_and_debug
    attempt,       \* the repair attempt _execute_and_debug is in
    fixerCalls,    \* number of _debug_code calls made
    execs,         \* the executions made so far, in order
    rPc,           \* position of _retry_llm_call ("idle" when not running)
    rAttempt,      \* its loop variable attempt
    rBase,         \* its argument base_delay
    rCalls,        \* the outcomes of the backend calls made, in order
    rSleeps,       \* the delays slept, in order
    rResult,       \* what it returned or raised (optional)
    xPc,           \* position of get_objective_formulation
    xK,            \* its local k
    xRes,          \* the responses the gateway has in store for its calls
    xCalls,        \* number of get_response calls it made
    xResult,       \* what it returned or raised (optional)
    task,          \* state of each solver worker of main.run
    written,       \* the files written so far, with their writer
    handled,       \* the futures the as_completed loop has handled
    solver_ok,     \* the flags optimus_ok and optimind_ok
    lock,          \* holder of the logger's lock (optional)
    logPc,         \* position of each Stage-1 thread
    logLeft,       \* number of log calls each thread still makes
    logFile,       \* the lines of log.txt, with the thread that wrote them
    jsonPc,        \* position of extract_json_from_end ("idle" when not running)
    json_text,     \* its local text (json_text in the second part)
    ind,           \* its local ind
    cnt,           \* its local cnt
    pipePc,        \* position of the OptiMUS run_pipeline ("idle" when not running)
    state,         \* its local state (optional)
    files,         \* the files of the run directory: data.json and the snapshots
    started,       \* the stages that have started
    workers        \* the two extraction workers of Stage 1

judgeVars == <<fs, pc, optimus, optimind, prog, llmResp, comparison, winner_name,
               sanity, llmCalls, verdictFile, error, args, result>>

mainVars == <<mainPc, mainVerdict, report, exitStatus>>

loopVars == <<disk, loopCode, loopOutput, attempt, fixerCalls, execs>>

retryVars == <<rPc, rAttempt, rBase, rCalls, rSleeps, rResult>>

extractVars == <<xPc, xK, xRes, xCalls, xResult>>

runVars == <<task, written, handled, solver_ok>>

logVars == <<lock, logPc, logLeft, logFile>>

jsonVars == <<jsonPc, json_text, ind, cnt>>

pipeVars == <<pipePc, state, files, started, workers>>

extVars == <<retryVars, extractVars, runVars, logVars, jsonVars, pipeVars>>

vars == <<judgeVars, mainVars, loopVars, extVars>>

\* ------------------------------------------------------------------------
\* Bounds

\* longest execution log, in tokens, handed to _classify_execution directly
MaxLogLen == 3
\* objective values written by a solver are 1..MaxObj
MaxObj == 2

\* ------------------------------------------------------------------------
\* Python values

None == <<>>
Some(x) == <<x>>
IsNone(o) == o = <<>>
\* dict.get(key, default) on an optional entry
GetOr(o, default) == IF o = <<>> THEN default ELSE o[1]
Truthy(o) == o # <<>>

\* the tokens execution logs are made of
LogTokens ==
    {"Traceback", "traceback", "Execution", "failed",
     "infeasible", "Unbounded", "Optimal", "x"}

\* str.upper() on one token
UpperToken(t) ==
    CASE t = "Traceback" -> "TRACEBACK"
      [] t = "traceback" -> "TRACEBACK"
      [] t = "Execution" -> "EXECUTION"
      [] t = "failed" -> "FAILED"
      [] t = "infeasible" -> "INFEASIBLE"
      [] t = "Unbounded" -> "UNBOUNDED"
      [] t = "Optimal" -> "OPTIMAL"
      [] t = "GRB.MAXIMIZE" -> "GRB.MAXIMIZE"
      [] t = "minimize" -> "MINIMIZE"
      [] t = "x" -> "X"
      [] OTHER -> t

\* str.upper()
Upper(text) == [i \in 1..Len(text) |-> UpperToken(text[i])]

\* `marker in text`: marker occurs in text as a contiguous run
Contains(text, marker) ==
    \E i \in 0..(Len(text) - Len(marker)) :
        \A j \in 1..Len(marker) : text[i + j] = marker[j]

\* all texts of at most n tokens over the alphabet
TextsUpTo(alphabet, n) == UNION {[1..k -> alphabet] : k \in 0..n}

\* ------------------------------------------------------------------------
\* Data loading (pure functions)

\* The content of output_solution.txt: the numeral of an objective value,
\* or a solver status string such as "INFEASIBLE".
SolutionTexts ==
    [kind : {"numeral"}, value : 1..MaxObj]
        \cup {[kind |-> "status", value |-> 0]}

\* float(raw): the number a numeral spells; ValueError for any other text
_parse_objective(raw) ==
    IF IsNone(raw) THEN None
    ELSE IF raw[1].kind = "numeral" THEN Some(raw[1].value)
    ELSE None

_detect_direction(code) ==
    IF ~Truthy(code) \/ code[1] = <<>> THEN None
    ELSE LET upper == Upper(code[1])
         IN  IF Contains(upper, <<"MAXIMIZE">>) \/ Contains(upper, <<"GRB.MAXIMIZE">>)
                 THEN Some("maximize")
             ELSE IF Contains(upper, <<"MINIMIZE">>) \/ Contains(upper, <<"GRB.MINIMIZE">>)
                 THEN Some("minimize")
             ELSE None

\* _classify_execution with the guards on the optimality marker dropped
_classify_execution_unguarded(code_output, objective_value) ==
    IF IsNone(code_output) THEN "not_run"
    ELSE IF Contains(code_output[1], <<"Traceback">>)
            \/ Contains(code_output[1], <<"Execution", "failed">>) THEN "error"
    ELSE LET upper == Upper(code_output[1])
         IN  IF Contains(upper, <<"INFEASIBLE">>) THEN "infeasible"
             ELSE IF Contains(upper, <<"UNBOUNDED">>) THEN "unbounded"
             ELSE IF ~IsNone(objective_value)
                 THEN IF Contains(upper, <<"OPTIMAL">>) THEN "optimal" ELSE "feasible"
             ELSE "no_result"

_classify_execution(code_output, objective_value) ==
    IF IsNone(code_output) THEN "not_run"
    ELSE IF Contains(code_output[1], <<"Traceback">>)
            \/ Contains(code_output[1], <<"Execution", "failed">>) THEN "error"
    ELSE LET upper == Upper(code_output[1])
         IN  IF Contains(upper, <<"INFEASIBLE">>) /\ ~Contains(upper, <<"OPTIMAL">>)
                 THEN "infeasible"
             ELSE IF Contains(upper, <<"UNBOUNDED">>) /\ ~Contains(upper, <<"OPTIMAL">>)
                 THEN "unbounded"
             ELSE IF ~IsNone(objective_value)
                 THEN IF Contains(upper, <<"OPTIMAL">>) THEN "optimal" ELSE "feasible"
             ELSE "no_result"

\* One solver's output directory: absent, or its three files (each optional;
\* _read_file gives None for a missing or empty file, so a text read from a
\* file is never empty).
SampleCodes == {<<"GRB.MAXIMIZE">>, <<"x">>}

SampleLogs ==
    {<<"Traceback">>, <<"Execution", "failed">>, <<"infeasible">>, <<"Unbounded">>,
     <<"Optimal">>, <<"x">>, <<"Optimal", "infeasible">>}

Optional(S) == {None} \cup {Some(x) : x \in S}

SolverDirs ==
    Optional([code : Optional(SampleCodes),
              code_output : Optional(SampleLogs),
              output_solution : Optional(SolutionTexts)])

_load_solver(out_dir) ==
    IF IsNone(out_dir) THEN None
    ELSE LET code == out_dir[1].code
             code_output_raw == out_dir[1].code_output
             objective_raw == out_dir[1].output_solution
             objective_value == _parse_objective(objective_raw)
         IN  Some([code |-> code,
                   code_output_raw |-> code_output_raw,
                   objective_value |-> objective_value,
                   objective_raw |-> objective_raw,
                   execution_status |->
                       _classify_execution(code_output_raw, objective_value),
                   direction |-> _detect_direction(code),
                   available |-> ~IsNone(code) \/ ~IsNone(code_output_raw)])

\* ------------------------------------------------------------------------
\* Decision logic (pure functions)

\* `solver and solver.get("available")`
Ok(solver) == Truthy(solver) /\ solver[1].available

success_statuses == {"optimal", "feasible"}

\* _programmatic_winner with the two success rules naming the wrong variant
_programmatic_winner_swapped(optimus_, optimind_) ==
    LET opt_ok == Ok(optimus_)
        mind_ok == Ok(optimind_)
        opt_status == IF opt_ok THEN optimus_[1].execution_status ELSE "not_run"
        mind_status == IF mind_ok THEN optimind_[1].execution_status ELSE "not_run"
        opt_success == opt_status \in success_statuses
        mind_success == mind_status \in success_statuses
    IN  IF ~opt_ok /\ ~mind_ok
            THEN [winner |-> None, reason |-> "neither solver produced output"]
        ELSE IF ~mind_ok
            THEN [winner |-> Some("optimus"), reason |-> "only OptiMUS produced output"]
        ELSE IF ~opt_ok
            THEN [winner |-> Some("optimind"), reason |-> "only OptiMind produced output"]
        ELSE IF opt_success /\ ~mind_success
            THEN [winner |-> Some("optimind"), reason |-> "OptiMUS succeeded, OptiMind failed"]
        ELSE IF mind_success /\ ~opt_success
            THEN [winner |-> Some("optimus"), reason |-> "OptiMind succeeded, OptiMUS failed"]
        ELSE IF ~opt_success /\ ~mind_success
            THEN [winner |-> None, reason |-> "both solvers failed"]
        ELSE [winner |-> None, reason |-> "both succeeded with output"]

\* _programmatic_winner with the only-one-available rules placed after the
\* success rules
_programmatic_winner_reordered(optimus_, optimind_) ==
    LET opt_ok == Ok(optimus_)
        mind_ok == Ok(optimind_)
        opt_status == IF opt_ok THEN optimus_[1].execution_status ELSE "not_run"
        mind_status == IF mind_ok THEN optimind_[1].execution_status ELSE "not_run"
        opt_success == opt_status \in success_statuses
        mind_success == mind_status \in success_statuses
    IN  IF ~opt_ok /\ ~mind_ok
            THEN [winner |-> None, reason |-> "neither solver produced output"]
        ELSE IF opt_success /\ ~mind_success
            THEN [winner |-> Some("optimus"), reason |-> "OptiMUS succeeded, OptiMind failed"]
        ELSE IF mind_success /\ ~opt_success
            THEN [winner |-> Some("optimind"), reason |-> "OptiMind succeeded, OptiMUS failed"]
        ELSE IF ~opt_success /\ ~mind_success
            THEN [winner |-> None, reason |-> "both solvers failed"]
        ELSE IF ~mind_ok
            THEN [winner |-> Some("optimus"), reason |-> "only OptiMUS produced output"]
        ELSE IF ~opt_ok
            THEN [winner |-> Some("optimind"), reason |-> "only OptiMind produced output"]
        ELSE [winner |-> None, reason |-> "both succeeded with output"]

\* _programmatic_winner with a numeric shortcut for two successes
_programmatic_winner_numeric(optimus_, optimind_) ==
    LET opt_ok == Ok(optimus_)
        mind_ok == Ok(optimind_)
        opt_status == IF opt_ok THEN optimus_[1].execution_status ELSE "not_run"
        mind_status == IF mind_ok THEN optimind_[1].execution_status ELSE "not_run"
        opt_success == opt_status \in success_statuses
        mind_success == mind_status \in success_statuses
    IN  IF ~opt_ok /\ ~mind_ok
            THEN [winner |-> None, reason |-> "neither solver produced output"]
        ELSE IF ~mind_ok
            THEN [winner |-> Some("optimus"), reason |-> "only OptiMUS produced output"]
        ELSE IF ~opt_ok
            THEN [winner |-> Some("optimind"), reason |-> "only OptiMind produced output"]
        ELSE IF opt_success /\ ~mind_success
            THEN [winner |-> Some("optimus"), reason |-> "OptiMUS succeeded, OptiMind failed"]
        ELSE IF mind_success /\ ~opt_success
            THEN [winner |-> Some("optimind"), reason |-> "OptiMind succeeded, OptiMUS failed"]
        ELSE IF ~opt_success /\ ~mind_success
            THEN [winner |-> None, reason |-> "both solvers failed"]
        ELSE IF optimus_[1].objective_value = optimind_[1].objective_value
            THEN [winner |-> None, reason |-> "both achieved same objective"]
        ELSE IF optimus_[1].objective_value[1] > optimind_[1].objective_value[1]
            THEN [winner |-> Some("optimus"), reason |-> "better objective"]
        ELSE [winner |-> Some("optimind"), reason |-> "better objective"]

\* _programmatic_winner without the one-succeeded rules
_programmatic_winner_no_success_rule(optimus_, optimind_) ==
    LET opt_ok == Ok(optimus_)
        mind_ok == Ok(optimind_)
    IN  IF ~opt_ok /\ ~mind_ok
            THEN [winner |-> None, reason |-> "neither solver produced output"]
        ELSE IF ~mind_ok
            THEN [winner |-> Some("optimus"), reason |-> "only OptiMUS produced output"]
        ELSE IF ~opt_ok
            THEN [winner |-> Some("optimind"), reason |-> "only OptiMind produced output"]
        ELSE [winner |-> None, reason |-> "both succeeded with output"]

_programmatic_winner(optimus_, optimind_) ==
    LET opt_ok == Ok(optimus_)
        mind_ok == Ok(optimind_)
        opt_status == IF opt_ok THEN optimus_[1].execution_status ELSE "not_run"
        mind_status == IF mind_ok THEN optimind_[1].execution_status ELSE "not_run"
        opt_success == opt_status \in success_statuses
        mind_success == mind_status \in success_statuses
    IN  IF ~opt_ok /\ ~mind_ok
            THEN [winner |-> None, reason |-> "neither solver produced output"]
        ELSE IF ~mind_ok
            THEN [winner |-> Some("optimus"), reason |-> "only OptiMUS produced output"]
        ELSE IF ~opt_ok
            THEN [winner |-> Some("optimind"), reason |-> "only OptiMind produced output"]
        ELSE IF opt_success /\ ~mind_success
            THEN [winner |-> Some("optimus"), reason |-> "OptiMUS succeeded, OptiMind failed"]
        ELSE IF mind_success /\ ~opt_success
            THEN [winner |-> Some("optimind"), reason |-> "OptiMind succeeded, OptiMUS failed"]
        ELSE IF ~opt_success /\ ~mind_success
            THEN [winner |-> None, reason |-> "both solvers failed"]
        ELSE IF ~IsNone(optimus_[1].objective_value)
                /\ ~IsNone(optimind_[1].objective_value)
                /\ optimus_[1].objective_value = optimind_[1].objective_value
            THEN [winner |-> None, reason |-> "both achieved same objective"]
        ELSE [winner |-> None, reason |-> "both succeeded with output"]

_sanity_check(llm_winner, optimus_, optimind_) ==
    LET opt_ok == Ok(optimus_)
        mind_ok == Ok(optimind_)
        opt_status == IF opt_ok THEN optimus_[1].execution_status ELSE "not_run"
        mind_status == IF mind_ok THEN optimind_[1].execution_status ELSE "not_run"
        success == {"optimal", "feasible"}
    IN  IF llm_winner = "optimus" /\ opt_status \notin success /\ mind_status \in success
            THEN [winner |-> "optimind", overridden |-> TRUE,
                  reason |-> Some("LLM picked OptiMUS but OptiMind succeeded")]
        ELSE IF llm_winner = "optimind" /\ mind_status \notin success
                /\ opt_status \in success
            THEN [winner |-> "optimus", overridden |-> TRUE,
                  reason |-> Some("LLM picked OptiMind but OptiMUS succeeded")]
        ELSE IF llm_winner = "optimus" /\ ~opt_ok /\ mind_ok
            THEN [winner |-> "optimind", overridden |-> TRUE,
                  reason |-> Some("LLM picked OptiMUS but it has no output")]
        ELSE IF llm_winner = "optimind" /\ ~mind_ok /\ opt_ok
            THEN [winner |-> "optimus", overridden |-> TRUE,
                  reason |-> Some("LLM picked OptiMind but it has no output")]
        ELSE [winner |-> llm_winner, overridden |-> FALSE, reason |-> None]

\* ------------------------------------------------------------------------
\* LLM call

\* What the LLM may answer (the winner asked for is "optimus" or "optimind";
\* "tie" stands for any other string, "null" for a value that is not a
\* string, such as JSON null).  A response text is a body, optionally
\* wrapped in a markdown code fence.  Bodies:
\*   object        a JSON object (its winner and direction keys are optional)
\*   prose_object  a JSON object with prose around it
\*   array         the JSON array ["winner"]
\*   number        a non-zero JSON number
\*   truncated     a JSON object cut before its closing brace
\*   text          free text without braces
WinnerValues == {"optimus", "optimind", "tie", "null"}

\* whether a winner value is a Python str
IsString(w) == w # "null"

Body(kind, winner, direction) ==
    [kind |-> kind, winner |-> winner, direction |-> direction]

ResponseBodies ==
    {Body("object", Some("optimus"), Some("minimize")),
     Body("object", Some("optimind"), Some("unknown")),
     Body("object", Some("tie"), None),
     Body("object", Some("null"), None),
     Body("object", None, Some("minimize")),
     Body("prose_object", Some("optimind"), None),
     Body("array", None, None),
     Body("number", None, None),
     Body("truncated", Some("optimind"), None),
     Body("text", None, None)}

Responses ==
    [fenced : {FALSE}, body : ResponseBodies]
        \cup [fenced : {TRUE}, body : {Body("object", Some("optimind"), Some("minimize")),
                                       Body("truncated", Some("optimus"), None)}]

\* A decoded JSON value: type is "dict", "list", "int"; None when undecodable.
Dict(winner, direction, reasoning) ==
    [type |-> "dict", winner |-> winner, direction |-> direction,
     reasoning |-> reasoning, optimus_assessment |-> None,
     optimind_assessment |-> None, programmatic_reason |-> None,
     override_reason |-> None]

NonDict(type) ==
    [type |-> type, winner |-> None, direction |-> None, reasoning |-> None,
     optimus_assessment |-> None, optimind_assessment |-> None,
     programmatic_reason |-> None, override_reason |-> None]

\* json.loads on a body
JsonLoads(body) ==
    CASE body.kind = "object" -> Some(Dict(body.winner, body.direction, Some("llm")))
      [] body.kind = "array" -> Some(NonDict("list"))
      [] body.kind = "number" -> Some(NonDict("int"))
      [] OTHER -> None

\* re.search(r"\{.*\}", text): the first "{" up to the last "}"
SearchBraces(body) ==
    IF body.kind \in {"object", "prose_object"}
        THEN Some(Body("object", body.winner, body.direction))
    ELSE None

\* lines 460-467 strip the code fence, leaving the body
_parse_llm_json(response_text) ==
    LET text == response_text.body
        direct == JsonLoads(text)
        match == SearchBraces(text)
    IN  IF ~IsNone(direct) THEN direct
        ELSE IF ~IsNone(match) THEN JsonLoads(match[1])
        ELSE None

\* evaluate_solutions after get_response returned `response`:
\* [raised, value]; `"winner" in parsed` is a key test on a dict, an element
\* test on a list and a TypeError on a number.
evaluate_solutions(response) ==
    LET parsed == _parse_llm_json(response)
        fallback == [Dict(Some("optimus"), Some("unknown"), Some("could not be parsed"))
                         EXCEPT !.optimus_assessment = Some("N/A"),
                                !.optimind_assessment = Some("N/A")]
    IN  IF IsNone(parsed) THEN [raised |-> "", value |-> fallback]
        ELSE IF parsed[1].type = "int" THEN [raised |-> "TypeError", value |-> fallback]
        ELSE IF parsed[1].type = "list" THEN [raised |-> "", value |-> parsed[1]]
        ELSE IF ~IsNone(parsed[1].winner) THEN [raised |-> "", value |-> parsed[1]]
        ELSE [raised |-> "", value |-> fallback]

\* ------------------------------------------------------------------------
\* compare_solutions, step by step

NoProg == [winner |-> None, reason |-> ""]

\* main.run is not running
MainIdle ==
    /\ mainPc = "idle"
    /\ mainVerdict = None
    /\ report = ""
    /\ exitStatus = None

\* _execute_and_debug is not running
LoopIdle ==
    /\ disk = None
    /\ loopCode = None
    /\ loopOutput = None
    /\ attempt = 0
    /\ fixerCalls = 0
    /\ execs = <<>>

\* _retry_llm_call is not running
RetryIdle ==
    /\ rPc = "idle"
    /\ rAttempt = 0
    /\ rBase = 0
    /\ rCalls = <<>>
    /\ rSleeps = <<>>
    /\ rResult = None

\* get_objective_formulation is not running
ExtractIdle ==
    /\ xPc = "idle"
    /\ xK = 0
    /\ xRes = <<>>
    /\ xCalls = 0
    /\ xResult = None

\* no solver worker has been submitted
RunIdle ==
    /\ task = [s \in {"optimus", "optimind"} |->
                  [pc |-> "idle", step |-> 0, success |-> FALSE]]
    /\ written = {}
    /\ handled = {}
    /\ solver_ok = [s \in {"optimus", "optimind"} |-> FALSE]

\* Stage 1 of the OptiMUS pipeline is not running
LogIdle ==
    /\ lock = None
    /\ logPc = [t \in {"objective", "constraints"} |-> "idle"]
    /\ logLeft = [t \in {"objective", "constraints"} |-> 0]
    /\ logFile = <<>>

\* extract_json_from_end is not running
JsonIdle ==
    /\ jsonPc = "idle"
    /\ json_text = <<>>
    /\ ind = 0
    /\ cnt = 0

\* the OptiMUS run_pipeline is not running
PipeIdle ==
    /\ pipePc = "idle"
    /\ state = None
    /\ files = <<>>
    /\ started = {}
    /\ workers = <<>>

ExtIdle ==
    /\ RetryIdle
    /\ ExtractIdle
    /\ RunIdle
    /\ LogIdle
    /\ JsonIdle
    /\ PipeIdle

\* compare_solutions is not running
JudgeIdle ==
    /\ fs = [description |-> FALSE, optimus_output |-> None, optimind_output |-> None]
    /\ pc = "idle"
    /\ optimus = None
    /\ optimind = None
    /\ prog = NoProg
    /\ llmResp = None
    /\ comparison = None
    /\ winner_name = None
    /\ sanity = None
    /\ llmCalls = 0
    /\ verdictFile = None
    /\ error = ""
    /\ args = None
    /\ result = None

\* the state compare_solutions is entered in
JudgeStart ==
    /\ fs \in [description : BOOLEAN, optimus_output : SolverDirs,
               optimind_output : SolverDirs]
    /\ pc = "start"
    /\ optimus = None
    /\ optimind = None
    /\ prog = NoProg
    /\ llmResp = None
    /\ comparison = None
    /\ winner_name = None
    /\ sanity = None
    /\ llmCalls = 0
    /\ verdictFile = None
    /\ error = ""
    /\ args = None
    /\ result = None

Init ==
    /\ JudgeStart
    /\ MainIdle
    /\ LoopIdle
    /\ ExtIdle

Raise(e) ==
    /\ pc' = "raised"
    /\ error' = e

\* Load that goes on to Layer 1 when neither solver produced output
LoadUnchecked ==
    /\ pc = "start"
    /\ optimus' = _load_solver(fs.optimus_output)
    /\ optimind' = _load_solver(fs.optimind_output)
    /\ IF ~fs.description THEN Raise("FileNotFoundError")
       ELSE pc' = "layer1" /\ error' = error
    /\ UNCHANGED <<extVars, fs, prog, llmResp, comparison, winner_name, sanity, llmCalls,
                   verdictFile, args, result, mainVars, loopVars>>

\* lines 526-540: load, and the two checks that raise
Load ==
    /\ pc = "start"
    /\ optimus' = _load_solver(fs.optimus_output)
    /\ optimind' = _load_solver(fs.optimind_output)
    /\ IF ~fs.description THEN Raise("FileNotFoundError")
       ELSE IF ~Ok(optimus') /\ ~Ok(optimind') THEN Raise("RuntimeError")
       ELSE pc' = "layer1" /\ error' = error
    /\ UNCHANGED <<extVars, fs, prog, llmResp, comparison, winner_name, sanity, llmCalls,
                   verdictFile, args, result, mainVars, loopVars>>

\* Layer1 that builds the verdict at once when it has a winner
Layer1ShortCircuit ==
    /\ pc = "layer1"
    /\ prog' = _programmatic_winner(optimus, optimind)
    /\ winner_name' = IF Truthy(prog'.winner) THEN prog'.winner ELSE winner_name
    /\ comparison' = IF Truthy(prog'.winner)
                         THEN Some([Dict(prog'.winner, None, None)
                                      EXCEPT !.programmatic_reason = Some(prog'.reason)])
                     ELSE comparison
    /\ pc' = IF Truthy(prog'.winner) THEN "verdict" ELSE "llm"
    /\ UNCHANGED <<extVars, fs, optimus, optimind, llmResp, sanity, llmCalls,
                   verdictFile, error, args, result, mainVars, loopVars>>

\* lines 543-547: Layer 1
Layer1 ==
    /\ pc = "layer1"
    /\ prog' = _programmatic_winner(optimus, optimind)
    /\ winner_name' = IF Truthy(prog'.winner) THEN prog'.winner ELSE winner_name
    /\ pc' = "llm"
    /\ UNCHANGED <<extVars, fs, optimus, optimind, llmResp, comparison, sanity, llmCalls,
                   verdictFile, error, args, result, mainVars, loopVars>>

\* lines 550 and 558: get_response raises (the LLM could not be reached)
LLMFails ==
    /\ pc = "llm"
    /\ llmCalls' = llmCalls + 1
    /\ Raise("LLMError")
    /\ UNCHANGED <<extVars, fs, optimus, optimind, prog, llmResp, comparison, winner_name,
                   sanity, verdictFile, args, result, mainVars, loopVars>>

\* the branch of lines 545-562 with Layer 3 left out
AfterComparisonNoSanity(prog_winner) == "verdict"

\* lines 545-562: a Layer 1 winner goes to the verdict, an LLM winner to Layer 3
AfterComparison(prog_winner) ==
    IF Truthy(prog_winner) THEN "verdict" ELSE "sanity"

\* lines 548-559: evaluate_solutions and the statements on its result, on
\* either branch; a subscript assignment on a list is a TypeError, .get on a
\* list an AttributeError
EvaluateSolutions ==
    /\ pc = "llm"
    /\ \E response \in Responses :
        LET ev == evaluate_solutions(response)
        IN  /\ llmResp' = Some(response)
            /\ llmCalls' = llmCalls + 1
            /\ IF ev.raised # ""
                   THEN Raise(ev.raised) /\ UNCHANGED <<comparison, winner_name>>
               ELSE IF Truthy(prog.winner)
                   THEN IF ev.value.type # "dict"
                            THEN /\ Raise("TypeError")
                                 /\ comparison' = Some(ev.value)
                                 /\ UNCHANGED winner_name
                        ELSE /\ comparison' =
                                    Some([ev.value EXCEPT
                                            !.winner = prog.winner,
                                            !.programmatic_reason = Some(prog.reason)])
                             /\ pc' = AfterComparison(prog.winner)
                             /\ UNCHANGED <<winner_name, error>>
               ELSE IF ev.value.type # "dict"
                   THEN /\ Raise("AttributeError")
                        /\ comparison' = Some(ev.value)
                        /\ UNCHANGED winner_name
               ELSE /\ comparison' = Some(ev.value)
                    /\ winner_name' = ev.value.winner
                    /\ pc' = AfterComparison(prog.winner)
                    /\ UNCHANGED error
    /\ UNCHANGED <<extVars, fs, optimus, optimind, prog, sanity, verdictFile, args, result, mainVars, loopVars>>

\* lines 561-568: Layer 3 on the LLM's winner
SanityCheck ==
    /\ pc = "sanity"
    /\ LET r == _sanity_check(winner_name[1], optimus, optimind)
       IN  /\ sanity' = Some([llm_winner |-> winner_name[1], final |-> r.winner,
                              overridden |-> r.overridden])
           /\ winner_name' = Some(r.winner)
           /\ comparison' =
                 IF r.overridden
                     THEN Some([comparison[1] EXCEPT !.winner = Some(r.winner),
                                                     !.override_reason = r.reason])
                 ELSE comparison
    /\ pc' = "verdict"
    /\ UNCHANGED <<extVars, fs, optimus, optimind, prog, llmResp, llmCalls, verdictFile,
                   error, args, result, mainVars, loopVars>>

\* _solver_status that counts only optimal as success
_solver_status_optimal_only(solver) ==
    IF ~Ok(solver) THEN "not_available"
    ELSE IF solver[1].execution_status = "optimal" THEN "success"
    ELSE solver[1].execution_status

\* the nested _solver_status of compare_solutions
_solver_status(solver) ==
    IF ~Ok(solver) THEN "not_available"
    ELSE IF solver[1].execution_status \in {"optimal", "feasible"} THEN "success"
    ELSE solver[1].execution_status

\* `solver.get("objective_value") if solver else None`
ObjectiveOf(solver) == IF Truthy(solver) THEN solver[1].objective_value ELSE None

\* lines 572-578: the direction of the verdict
DetectDirection(comp, optimus_, optimind_) ==
    LET direction == IF IsNone(comp.direction) THEN "unknown" ELSE comp.direction[1]
    IN  IF direction # "unknown" THEN direction
        ELSE IF Truthy(optimus_) /\ Truthy(optimus_[1].direction)
            THEN optimus_[1].direction[1]
        ELSE IF Truthy(optimind_) /\ Truthy(optimind_[1].direction)
            THEN optimind_[1].direction[1]
        ELSE direction

\* lines 570-621: build the verdict and write verdict.json
BuildVerdict ==
    /\ pc = "verdict"
    /\ LET winner_data == IF winner_name[1] = "optimus" THEN optimus ELSE optimind
       IN  verdictFile' =
               Some([winner |-> winner_name[1],
                     objective_value |-> ObjectiveOf(winner_data),
                     direction |-> DetectDirection(comparison[1], optimus, optimind),
                     solvers |->
                         [optimus |-> [status |-> _solver_status(optimus),
                                       objective_value |-> ObjectiveOf(optimus)],
                          optimind |-> [status |-> _solver_status(optimind),
                                        objective_value |-> ObjectiveOf(optimind)]],
                     reasoning |-> GetOr(comparison[1].reasoning, ""),
                     optimus_assessment |->
                         GetOr(comparison[1].optimus_assessment, ""),
                     optimind_assessment |->
                         GetOr(comparison[1].optimind_assessment, "")])
    /\ pc' = "done"
    /\ UNCHANGED <<extVars, fs, optimus, optimind, prog, llmResp, comparison, winner_name,
                   sanity, llmCalls, error, args, result, mainVars, loopVars>>

Next ==
    \/ Load
    \/ Layer1
    \/ LLMFails
    \/ EvaluateSolutions
    \/ SanityCheck
    \/ BuildVerdict

Spec == Init /\ [][Next]_vars

\* ------------------------------------------------------------------------
\* _classify_execution called directly on any log and objective

InitClassify ==
    /\ args \in [code_output : Optional(TextsUpTo(LogTokens, MaxLogLen)),
                 objective_value : Optional(1..MaxObj)]
    /\ pc = "call"
    /\ result = None
    /\ fs = [description |-> FALSE, optimus_output |-> None, optimind_output |-> None]
    /\ optimus = None
    /\ optimind = None
    /\ prog = NoProg
    /\ llmResp = None
    /\ comparison = None
    /\ winner_name = None
    /\ sanity = None
    /\ llmCalls = 0
    /\ verdictFile = None
    /\ error = ""
    /\ MainIdle
    /\ LoopIdle
    /\ ExtIdle

ClassifyCall ==
    /\ pc = "call"
    /\ result' = Some(_classify_execution(args.code_output, args.objective_value))
    /\ pc' = "returned"
    /\ UNCHANGED <<extVars, fs, optimus, optimind, prog, llmResp, comparison, winner_name,
                   sanity, llmCalls, verdictFile, error, args, mainVars, loopVars>>

SpecClassify == InitClassify /\ [][ClassifyCall]_vars

\* ------------------------------------------------------------------------
\* _sanity_check called directly on any winner value and any two loaded
\* solver outputs

LoadedSolvers == {_load_solver(d) : d \in SolverDirs}

InitSanity ==
    /\ args \in [llm_winner : WinnerValues, optimus : LoadedSolvers,
                 optimind : LoadedSolvers]
    /\ pc = "call"
    /\ result = None
    /\ fs = [description |-> FALSE, optimus_output |-> None, optimind_output |-> None]
    /\ optimus = None
    /\ optimind = None
    /\ prog = NoProg
    /\ llmResp = None
    /\ comparison = None
    /\ winner_name = None
    /\ sanity = None
    /\ llmCalls = 0
    /\ verdictFile = None
    /\ error = ""
    /\ MainIdle
    /\ LoopIdle
    /\ ExtIdle

SanityCall ==
    /\ pc = "call"
    /\ result' = Some(_sanity_check(args.llm_winner, args.optimus, args.optimind))
    /\ pc' = "returned"
    /\ UNCHANGED <<extVars, fs, optimus, optimind, prog, llmResp, comparison, winner_name,
                   sanity, llmCalls, verdictFile, error, args, mainVars, loopVars>>

SpecSanity == InitSanity /\ [][SanityCall]_vars

\* ------------------------------------------------------------------------
\* The end-to-end run (src/main.py) from the judge step on: step 5 calls
\* compare_solutions, step 6 generate_report (src/backend/consultant.py),
\* then the summary is printed and the process exits.

\* the statistics _parse_gurobi_stats can extract from the winner's log:
\* none without a log
GurobiStats(code_output) ==
    IF ~Truthy(code_output) THEN {{}}
    ELSE {{}, {"status_detail"}}

\* the winner's execution log as _load_context reads it
WinnerLog(winner) ==
    LET out_dir == IF winner = "optimus" THEN fs.optimus_output
                   ELSE fs.optimind_output
    IN  IF IsNone(out_dir) THEN None ELSE out_dir[1].code_output

\* whether _format_winner_details can be evaluated: the winner must have
\* .upper() and be a key of verdict["solvers"]
WinnerDetailsOk(verdict) == verdict.winner \in DOMAIN verdict.solvers

\* an enrichment that writes a fresh record holding the summary fields only
EnrichFresh(verdict, exec_summary, has_baseline, gurobi_stats) ==
    [executive_summary |-> exec_summary,
     has_baseline_comparison |-> has_baseline,
     gurobi_stats |-> gurobi_stats]

\* consultant.py lines 490-495: three subscript assignments on the verdict
\* read from verdict.json
Enrich(verdict, exec_summary, has_baseline, gurobi_stats) ==
    [k \in DOMAIN verdict \cup
              {"executive_summary", "has_baseline_comparison", "gurobi_stats"} |->
        IF k = "gurobi_stats" THEN gurobi_stats
        ELSE IF k = "has_baseline_comparison" THEN has_baseline
        ELSE IF k = "executive_summary" THEN exec_summary
        ELSE verdict[k]]

\* main.py lines 255-265: step 5, the judge has returned or raised
JudgeStep ==
    /\ mainPc = "judge"
    /\ pc \in {"done", "raised"}
    /\ mainVerdict' = IF pc = "done" THEN verdictFile ELSE None
    /\ mainPc' = "report"
    /\ UNCHANGED <<extVars, judgeVars, report, exitStatus, loopVars>>

\* main.py lines 267-276 and consultant.py lines 442-502: step 6; every
\* exception of generate_report is caught and only warned about
ReportStep ==
    /\ mainPc = "report"
    /\ IF ~Truthy(mainVerdict)
           THEN UNCHANGED <<report, verdictFile>>
       ELSE IF ~WinnerDetailsOk(verdictFile[1])
           THEN report' = "failed" /\ UNCHANGED verdictFile
       ELSE \E llm_ok \in BOOLEAN, exec_summary \in {"", "summary"},
               has_baseline \in BOOLEAN,
               gurobi_stats \in GurobiStats(WinnerLog(verdictFile[1].winner)) :
               IF ~llm_ok
                   THEN report' = "failed" /\ UNCHANGED verdictFile
               ELSE /\ report' = "written"
                    /\ verdictFile' = Some(Enrich(verdictFile[1], exec_summary,
                                                  has_baseline, gurobi_stats))
    /\ mainPc' = "summary"
    /\ UNCHANGED <<extVars, fs, pc, optimus, optimind, prog, llmResp, comparison,
                   winner_name, sanity, llmCalls, error, args, result,
                   mainVerdict, exitStatus, loopVars>>

\* main.py lines 278-311: the summary; verdict["winner"].upper() raises an
\* AttributeError nothing catches when the winner is not a string, and the
\* interpreter then exits with status 1
Summary ==
    /\ mainPc = "summary"
    /\ IF Truthy(mainVerdict) /\ ~IsString(mainVerdict[1].winner)
           THEN mainPc' = "exited" /\ exitStatus' = Some(1)
       ELSE mainPc' = "returned" /\ UNCHANGED exitStatus
    /\ UNCHANGED <<extVars, judgeVars, mainVerdict, report, loopVars>>

\* main.py line 362: sys.exit(0 if verdict else 1)
Exit ==
    /\ mainPc = "returned"
    /\ exitStatus' = Some(IF Truthy(mainVerdict) THEN 0 ELSE 1)
    /\ mainPc' = "exited"
    /\ UNCHANGED <<extVars, judgeVars, mainVerdict, report, loopVars>>

\* the output directories the end-to-end run is explored on: a program, an
\* execution log that succeeded or crashed or none, any objective file
MainDirs ==
    Optional([code : {Some(<<"x">>)},
              code_output : Optional({<<"Optimal">>, <<"Traceback">>}),
              output_solution : Optional(SolutionTexts)])

InitMain ==
    /\ JudgeStart
    /\ fs.optimus_output \in MainDirs
    /\ fs.optimind_output \in MainDirs
    /\ mainPc = "judge"
    /\ mainVerdict = None
    /\ report = ""
    /\ exitStatus = None
    /\ LoopIdle
    /\ ExtIdle

NextMain ==
    \/ Load
    \/ Layer1
    \/ LLMFails
    \/ EvaluateSolutions
    \/ SanityCheck
    \/ BuildVerdict
    \/ JudgeStep
    \/ ReportStep
    \/ Summary
    \/ Exit

SpecMain == InitMain /\ [][NextMain]_vars

\* ------------------------------------------------------------------------
\* OptiMind code patching (src/backend/optimind.py). A program text is a
\* sequence of fragments; the marker "output_solution.txt" is the run of the
\* two fragments "output_solution" and ".txt", so that a text can hold a
\* part of the marker without holding the marker.

MaxCodeLen == 3

CodeFragments == {"m = gp.Model(", "prob = Model(", "x", "output_solution", ".txt"}

TrailerMarker == <<"output_solution", ".txt">>

\* the name the regex group (\w+) captures in a fragment, if it matches
ModelVarOf(fragment) ==
    CASE fragment = "m = gp.Model(" -> Some("m")
      [] fragment = "prob = Model(" -> Some("prob")
      [] OTHER -> None

\* re.search: the leftmost match, "model" without one
_find_model_var(code) ==
    LET matches == {i \in 1..Len(code) : Truthy(ModelVarOf(code[i]))}
    IN  IF matches = {} THEN "model"
        ELSE ModelVarOf(code[CHOOSE i \in matches : \A j \in matches : i <= j])[1]

\* SOLUTION_TEMPLATE.format(var=var)
SOLUTION_TEMPLATE(var) ==
    <<"# --- Optima: save objective value ---", var, "output_solution", ".txt">>

\* a patch that leaves every program as it is
_patch_code_skip(code) == code

\* a patch that appends the trailer whatever the code holds
_patch_code_always(code) == code \o SOLUTION_TEMPLATE(_find_model_var(code))

_patch_code(code) ==
    IF Contains(code, TrailerMarker) THEN code
    ELSE code \o SOLUTION_TEMPLATE(_find_model_var(code))

\* _patch_code called on any program text, and again on its own output
InitPatch ==
    /\ args \in TextsUpTo(CodeFragments, MaxCodeLen)
    /\ pc = "call"
    /\ result = <<>>
    /\ fs = [description |-> FALSE, optimus_output |-> None, optimind_output |-> None]
    /\ optimus = None
    /\ optimind = None
    /\ prog = NoProg
    /\ llmResp = None
    /\ comparison = None
    /\ winner_name = None
    /\ sanity = None
    /\ llmCalls = 0
    /\ verdictFile = None
    /\ error = ""
    /\ MainIdle
    /\ LoopIdle
    /\ ExtIdle

PatchCall ==
    /\ pc = "call"
    /\ result' = <<_patch_code(args)>>
    /\ pc' = "patched"
    /\ UNCHANGED <<extVars, fs, optimus, optimind, prog, llmResp, comparison, winner_name,
                   sanity, llmCalls, verdictFile, error, args, mainVars, loopVars>>

PatchAgain ==
    /\ pc = "patched"
    /\ result' = Append(result, _patch_code(result[1]))
    /\ pc' = "returned"
    /\ UNCHANGED <<extVars, fs, optimus, optimind, prog, llmResp, comparison, winner_name,
                   sanity, llmCalls, verdictFile, error, args, mainVars, loopVars>>

NextPatch ==
    \/ PatchCall
    \/ PatchAgain

SpecPatch == InitPatch /\ [][NextPatch]_vars

\* ------------------------------------------------------------------------
\* The OptiMind execute-and-repair loop (_execute_and_debug)

DEBUG_MAX_RETRIES == 5

\* what running the program can do: exit with a return code after printing
\* and perhaps writing output_solution.txt (a program can write the file and
\* hang in a later statement), run into the timeout, or fail to be launched. On a timeout the output captured so far is None when
\* there was none; otherwise it is bytes or text, depending on the platform's
\* subprocess.run (bytes on POSIX, whatever text=True says).
ExecOutcomes ==
    {[kind |-> "exit", returncode |-> 0, stdout |-> <<"Optimal">>,
      wrote |-> Some([kind |-> "numeral", value |-> 1])],
     [kind |-> "exit", returncode |-> 0, stdout |-> <<"infeasible">>,
      wrote |-> Some([kind |-> "status", value |-> 0])],
     [kind |-> "exit", returncode |-> 0, stdout |-> <<>>, wrote |-> None],
     [kind |-> "exit", returncode |-> 1, stdout |-> <<"Traceback">>, wrote |-> None],
     [kind |-> "timeout", returncode |-> 1, stdout |-> <<"x">>, wrote |-> None],
     [kind |-> "timeout_bytes", returncode |-> 1, stdout |-> <<"x">>, wrote |-> None],
     [kind |-> "timeout", returncode |-> 1, stdout |-> <<>>,
      wrote |-> Some([kind |-> "numeral", value |-> 2])],
     [kind |-> "oserror", returncode |-> 1, stdout |-> <<>>, wrote |-> None]}

\* _execute_code: the returned (output, success) and the text written to
\* code_output.txt, if any. In the timeout handler `msg += (exc.stdout or
\* "") + (exc.stderr or "")` is a TypeError when the captured output is
\* bytes; raised inside an except clause, the later `except Exception` does
\* not catch it and nothing is written.
_execute_code(outcome) ==
    CASE outcome.kind = "exit" ->
            [raised |-> "",
             output |-> outcome.stdout,
             success |-> outcome.returncode = 0,
             written |-> Some(IF outcome.stdout = <<>> THEN <<"(no output)">>
                              ELSE outcome.stdout)]
      [] outcome.kind = "timeout" ->
            [raised |-> "",
             output |-> <<"Execution timed out">> \o outcome.stdout,
             success |-> FALSE,
             written |-> Some(<<"Execution timed out">> \o outcome.stdout)]
      [] outcome.kind = "timeout_bytes" ->
            [raised |-> "TypeError",
             output |-> <<>>,
             success |-> FALSE,
             written |-> None]
      [] OTHER ->
            [raised |-> "",
             output |-> <<"Execution failed">>,
             success |-> FALSE,
             written |-> Some(<<"Execution failed">>)]

\* the fragment that tells the fixer's program of one attempt from the others
FixFragment(k) == <<"# fix 1", "# fix 2", "# fix 3", "# fix 4", "# fix 5">>[k]

\* the code blocks _debug_code can return in a repair attempt: a new program
\* without the trailer, or the program it was given
FixedCodes(k, code) == {<<"prob = Model(", FixFragment(k)>>, code}

\* the programs run_pipeline hands to _execute_and_debug: patched
InitialCodes == {_patch_code(<<"m = gp.Model(">>)}

EmptyDisk ==
    [canonical |-> None,
     versions |-> [k \in 1..DEBUG_MAX_RETRIES |-> None],
     errors |-> [k \in 0..DEBUG_MAX_RETRIES |-> None],
     code_output |-> None,
     output_solution |-> None]

\* the files after the program at hand has been run
AfterRun(d, outcome) ==
    [d EXCEPT !.code_output = IF Truthy(_execute_code(outcome).written)
                                  THEN _execute_code(outcome).written
                              ELSE d.code_output,
              !.output_solution = IF Truthy(outcome.wrote) THEN outcome.wrote
                                  ELSE d.output_solution]

\* the record of one execution: attempt, program, returned output, success,
\* return code and whether output_solution.txt held a value afterwards
Execution(k, code, outcome, d) ==
    [attempt |-> k, code |-> code,
     kind |-> outcome.kind,
     raised |-> _execute_code(outcome).raised,
     output |-> _execute_code(outcome).output,
     written |-> _execute_code(outcome).written,
     ok |-> _execute_code(outcome).success,
     exit_zero |-> outcome.kind = "exit" /\ outcome.returncode = 0,
     wrote |-> outcome.wrote,
     artifact |-> AfterRun(d, outcome).output_solution]

\* a loop that stops one attempt short
LoopContinuesShort(k) == k < DEBUG_MAX_RETRIES

\* range(1, max_retries + 1)
LoopContinues(k) == k <= DEBUG_MAX_RETRIES

Return(code, code_output, success) ==
    /\ result' = Some([code |-> code, code_output |-> code_output,
                       success |-> success])
    /\ pc' = "returned"

\* lines 309-323: write the canonical file, run it
InitialRun ==
    /\ pc = "enter"
    /\ \E outcome \in ExecOutcomes :
          LET d == [disk EXCEPT !.canonical = Some(args.code)]
              run == _execute_code(outcome)
          IN  /\ disk' = AfterRun(d, outcome)
              /\ execs' = Append(execs, Execution(0, args.code, outcome, d))
              /\ loopCode' = Some(args.code)
              /\ IF run.raised # ""
                     THEN /\ Raise(run.raised)
                          /\ UNCHANGED <<loopOutput, attempt, result>>
                 ELSE IF run.success
                     THEN /\ Return(args.code, run.output, TRUE)
                          /\ loopOutput' = Some(run.output)
                          /\ UNCHANGED <<attempt, error>>
                 ELSE /\ pc' = "debug"
                      /\ attempt' = 1
                      /\ loopOutput' = Some(run.output)
                      /\ UNCHANGED <<result, error>>
    /\ UNCHANGED <<extVars, fs, optimus, optimind, prog, llmResp, comparison, winner_name,
                   sanity, llmCalls, verdictFile, args, mainVars,
                   fixerCalls>>

\* an attempt without code that leaves the attempt counter as it is
RepairNoCodeFree ==
    /\ pc = "debug"
    /\ LoopContinues(attempt)
    /\ fixerCalls <= DEBUG_MAX_RETRIES
    /\ disk' = [disk EXCEPT !.errors[attempt - 1] = loopOutput]
    /\ fixerCalls' = fixerCalls + 1
    /\ UNCHANGED <<extVars, judgeVars, mainVars, loopCode, loopOutput, execs, attempt>>

\* lines 327-339: the error is saved, the fixer returns no code block
RepairNoCode ==
    /\ pc = "debug"
    /\ LoopContinues(attempt)
    /\ disk' = [disk EXCEPT !.errors[attempt - 1] = loopOutput]
    /\ fixerCalls' = fixerCalls + 1
    /\ attempt' = attempt + 1
    /\ UNCHANGED <<extVars, judgeVars, mainVars, loopCode, loopOutput, execs>>

\* lines 327-364: the error is saved, the fixer returns code, which is
\* patched, saved under the attempt's name and run
RepairWithCode ==
    /\ pc = "debug"
    /\ LoopContinues(attempt)
    /\ fixerCalls' = fixerCalls + 1
    /\ \E fixed_code \in FixedCodes(attempt, loopCode[1]), outcome \in ExecOutcomes :
          LET code == _patch_code(fixed_code)
              d == [disk EXCEPT !.errors[attempt - 1] = loopOutput,
                                !.versions[attempt] = Some(code)]
              run == _execute_code(outcome)
          IN  /\ loopCode' = Some(code)
              /\ execs' = Append(execs, Execution(attempt, code, outcome, d))
              /\ IF run.raised # ""
                     THEN /\ disk' = AfterRun(d, outcome)
                          /\ Raise(run.raised)
                          /\ UNCHANGED <<loopOutput, attempt, result>>
                 ELSE IF run.success
                     THEN /\ disk' = [AfterRun(d, outcome) EXCEPT
                                         !.canonical = Some(code)]
                          /\ Return(code, run.output, TRUE)
                          /\ loopOutput' = Some(run.output)
                          /\ UNCHANGED <<attempt, error>>
                 ELSE /\ disk' = AfterRun(d, outcome)
                      /\ attempt' = attempt + 1
                      /\ loopOutput' = Some(run.output)
                      /\ UNCHANGED <<pc, result, error>>
    /\ UNCHANGED <<extVars, fs, optimus, optimind, prog, llmResp, comparison, winner_name,
                   sanity, llmCalls, verdictFile, args, mainVars>>

\* lines 327-335 and 282-285: the error is saved, get_response raises and
\* nothing in _debug_code or _execute_and_debug catches it
FixerRaises ==
    /\ pc = "debug"
    /\ LoopContinues(attempt)
    /\ disk' = [disk EXCEPT !.errors[attempt - 1] = loopOutput]
    /\ fixerCalls' = fixerCalls + 1
    /\ Raise("LLMError")
    /\ UNCHANGED <<extVars, fs, optimus, optimind, prog, llmResp, comparison, winner_name,
                   sanity, llmCalls, verdictFile, args, result, mainVars,
                   loopCode, loopOutput, attempt, execs>>

\* lines 366-371: the retries are used up
Exhausted ==
    /\ pc = "debug"
    /\ ~LoopContinues(attempt)
    /\ disk' = [disk EXCEPT !.errors[DEBUG_MAX_RETRIES] = loopOutput]
    /\ Return(loopCode[1], loopOutput[1], FALSE)
    /\ UNCHANGED <<extVars, fs, optimus, optimind, prog, llmResp, comparison, winner_name,
                   sanity, llmCalls, verdictFile, error, args, mainVars,
                   loopCode, loopOutput, attempt, fixerCalls, execs>>

\* run_pipeline lines 448-458: the objective value read back from
\* output_solution.txt, a float or the raw text
ReadObjective(d) ==
    IF IsNone(d.output_solution) THEN None
    ELSE IF d.output_solution[1].kind = "numeral"
        THEN Some([type |-> "float", value |-> d.output_solution[1].value])
    ELSE Some([type |-> "str", value |-> d.output_solution[1].value])

InitLoop ==
    /\ args \in [code : InitialCodes]
    /\ pc = "enter"
    /\ result = None
    /\ disk = EmptyDisk
    /\ loopCode = None
    /\ loopOutput = None
    /\ attempt = 0
    /\ fixerCalls = 0
    /\ execs = <<>>
    /\ fs = [description |-> FALSE, optimus_output |-> None, optimind_output |-> None]
    /\ optimus = None
    /\ optimind = None
    /\ prog = NoProg
    /\ llmResp = None
    /\ comparison = None
    /\ winner_name = None
    /\ sanity = None
    /\ llmCalls = 0
    /\ verdictFile = None
    /\ error = ""
    /\ MainIdle
    /\ ExtIdle

NextLoop ==
    \/ InitialRun
    \/ RepairNoCode
    \/ RepairWithCode
    \/ FixerRaises
    \/ Exhausted

SpecLoop == InitLoop /\ [][NextLoop]_vars

\* ------------------------------------------------------------------------
\* The LLM gateway's retry (_retry_llm_call in src/optimus_utils.py)

max_attempts == 4

base_delay == 2

MaxBaseDelay == 2

\* the status codes is_retryable accepts
RetryableStatus == {500, 502, 503, 429, 529}

\* the class-name markers is_retryable looks for
RetryableNames ==
    {"InternalServerError", "RateLimitError", "OverloadedError", "APIConnectionError"}

\* the exceptions a backend call is explored with: the class name and the
\* status_code attribute, if the exception has one
BackendErrors ==
    {[name |-> "RateLimitError", status_code |-> Some(429)],
     [name |-> "OverloadedError", status_code |-> Some(529)],
     [name |-> "APIConnectionError", status_code |-> None],
     [name |-> "APIStatusError", status_code |-> Some(503)],
     [name |-> "BadRequestError", status_code |-> Some(400)],
     [name |-> "ValueError", status_code |-> None]}

\* what one backend call can do: return a text or raise
CallOutcomes ==
    {[ok |-> TRUE, value |-> v, error |-> None] : v \in {"text a", "text b"}}
        \cup {[ok |-> FALSE, value |-> "", error |-> Some(e)] : e \in BackendErrors}

\* `marker in type(e).__name__` for the class names explored, none of which
\* holds a marker as a proper part
NameContains(err_str, name_marker) == err_str = name_marker

\* a test that takes every exception for a transient one
is_retryable_any(e) == TRUE

is_retryable(e) ==
    \/ \E name_marker \in RetryableNames : NameContains(e.name, name_marker)
    \/ (Truthy(e.status_code) /\ e.status_code[1] \in RetryableStatus)

\* a last attempt that comes one attempt late
IsLastAttemptLate(k) == k = max_attempts

\* attempt == max_attempts - 1
IsLastAttempt(k) == k = max_attempts - 1

\* a delay that grows by base_delay per attempt
DelayLinear(base, k) == base * (k + 1)

\* base_delay * (2**attempt)
Delay(base, k) == base * (2 ^ k)

\* lines 162-174: one pass of the loop body up to the return, the raise or
\* the decision to wait
BackendCall ==
    /\ rPc = "call"
    /\ \E o \in CallOutcomes :
          /\ rCalls' = Append(rCalls, o)
          /\ IF o.ok
                 THEN /\ rResult' = Some([raised |-> FALSE, value |-> o.value,
                                          error |-> None])
                      /\ rPc' = "returned"
             ELSE IF ~is_retryable(o.error[1]) \/ IsLastAttempt(rAttempt)
                 THEN /\ rResult' = Some([raised |-> TRUE, value |-> "",
                                          error |-> o.error])
                      /\ rPc' = "raised"
             ELSE /\ rPc' = "sleep"
                  /\ UNCHANGED rResult
    /\ UNCHANGED <<judgeVars, mainVars, loopVars, extractVars, runVars, logVars, jsonVars, pipeVars,
                   rAttempt, rBase, rSleeps>>

\* lines 175-176: the wait, then the next pass of the loop
Backoff ==
    /\ rPc = "sleep"
    /\ rSleeps' = Append(rSleeps, Delay(rBase, rAttempt))
    /\ rAttempt' = rAttempt + 1
    /\ rPc' = "call"
    /\ UNCHANGED <<judgeVars, mainVars, loopVars, extractVars, runVars, logVars, jsonVars, pipeVars,
                   rBase, rCalls, rResult>>

InitRetry ==
    /\ rPc = "call"
    /\ rAttempt = 0
    /\ rBase \in 1..MaxBaseDelay
    /\ rCalls = <<>>
    /\ rSleeps = <<>>
    /\ rResult = None
    /\ JudgeIdle
    /\ MainIdle
    /\ LoopIdle
    /\ ExtractIdle
    /\ RunIdle
    /\ LogIdle
    /\ JsonIdle
    /\ PipeIdle

NextRetry ==
    \/ BackendCall
    \/ Backoff

SpecRetry == InitRetry /\ [][NextRetry]_vars

\* ------------------------------------------------------------------------
\* An OptiMUS extractor: get_objective_formulation
\* (src/backend/optimus_pipeline/step05_objective_model.py). A response is a
\* sequence of lines of five characters, each ended by a newline, so that
\* the character offsets of extract_equal_sign_closed fall on line starts.

MaxResLen == 2

ResponseLines == {"=====", "$f_1$", "$f_2$"}

\* str.find("=====", start) over lines: the index of the first marker line
\* at or after line `start`, 0 for -1
FindMarker(text, start) ==
    LET found == {i \in start..Len(text) : text[i] = "====="}
    IN  IF found = {} THEN 0 ELSE CHOOSE i \in found : \A j \in found : i <= j

\* text[ind_1 + 6 : ind_2].strip(): the lines between the first two marker
\* lines; with ind_2 = -1 the slice runs to the last character, the final
\* newline, and with ind_1 = -1 it starts at character 5, the end of the
\* first line
extract_equal_sign_closed(text) ==
    LET ind_1 == FindMarker(text, 1)
        ind_2 == FindMarker(text, ind_1 + 1)
        first == IF ind_1 = 0 THEN 2 ELSE ind_1 + 1
        last == IF ind_2 = 0 THEN Len(text) ELSE ind_2 - 1
    IN  SubSeq(text, first, last)

\* what one get_response call can do: raise (the gateway gave up, or the
\* error was not transient) or return a text
GatewayOutcomes ==
    {[raised |-> TRUE, text |-> <<>>]}
        \cup {[raised |-> FALSE, text |-> t] : t \in TextsUpTo(ResponseLines, MaxResLen)}

\* lines 58-75: one pass of `while k > 0`
ExtractorAttempt ==
    /\ xPc = "try"
    /\ xK > 0
    /\ xCalls' = xCalls + 1
    /\ LET res == xRes[xCalls + 1]
       IN  IF res.raised
               THEN /\ xK' = xK - 1
                    /\ IF xK' = 0
                           THEN /\ xPc' = "raised"
                                /\ xResult' = Some([raised |-> TRUE,
                                                    formulation |-> <<>>])
                       ELSE UNCHANGED <<xPc, xResult>>
           ELSE /\ xPc' = "returned"
                /\ xResult' = Some([raised |-> FALSE,
                                    formulation |->
                                        extract_equal_sign_closed(res.text)])
                /\ UNCHANGED xK
    /\ UNCHANGED <<judgeVars, mainVars, loopVars, retryVars, runVars, logVars, jsonVars, pipeVars,
                   xRes>>

\* the gateway's outcomes for a first and a second call are drawn beforehand
InitExtract ==
    /\ xPc = "try"
    /\ xK = 1
    /\ xRes \in [1..2 -> GatewayOutcomes]
    /\ xCalls = 0
    /\ xResult = None
    /\ JudgeIdle
    /\ MainIdle
    /\ LoopIdle
    /\ RetryIdle
    /\ RunIdle
    /\ LogIdle
    /\ JsonIdle
    /\ PipeIdle

SpecExtract == InitExtract /\ [][ExtractorAttempt]_vars

\* ------------------------------------------------------------------------
\* Step 4 of main.run: the two solver pipelines run in a pool of two worker
\* threads, the main thread handles each future as it completes, leaves the
\* pool and calls the judge.

Solvers == {"optimus", "optimind"}

\* a directory both pipelines would write to
OutputDirShared(solver) == "optimus_output"

\* os.path.join(problem_dir, OUTPUT_DIR) in the two run_pipeline functions
OutputDir(solver) ==
    IF solver = "optimus" THEN "optimus_output" ELSE "optimind_output"

\* the files backend/optimus.py's run_pipeline writes itself, in order:
\* create_state, save_state, the logger
OptimusOwnWrites ==
    <<"data.json", "state_1_params.json", "log.txt", "state_2_objective.json",
      "state_3_constraints.json", "state_4_constraints_modeled.json",
      "state_5_objective_modeled.json", "state_6_code.json">>

\* the files generate_code and execute_and_debug leave in the directory
\* they are handed, which the judge reads back from optimus_output
OptimusLateWrites == <<"code.py", "code_output.txt", "output_solution.txt">>

\* the files backend/optimind.py's run_pipeline and _execute_and_debug
\* write, and the one the executed program writes in its working directory
OptimindWrites ==
    <<"optimind_response.txt", "optimind_code.py", "code_output.txt",
      "output_solution.txt", "error_0.txt", "optimind_code_1.py">>

WritesOf(solver) ==
    IF solver = "optimus" THEN OptimusOwnWrites \o OptimusLateWrites
    ELSE OptimindWrites

\* the points at which a pipeline can return: OptiMUS at its end; OptiMind
\* also before any write (the request failed) and after saving the response
\* (no code block)
CanReturn(solver, step) ==
    \/ step = Len(WritesOf(solver))
    \/ solver = "optimind" /\ step \in {0, 1}

\* an except clause that lets every exception through
HandlerCatchesNothing(exc) == FALSE

\* `except Exception` on what future.result() re-raises
HandlerCatches(exc) == exc = "Exception"

\* a loop over the futures that ends with the first one
AllHandledFirst(done) == done # {}

\* as_completed has yielded every future and the with block is left, which
\* joins the workers
AllHandled(done) == done = Solvers

Terminated(solver) == task[solver].pc \in {"returned", "raised"}

\* lines 238-242: both pipelines are submitted to the pool of two workers
Submit ==
    /\ mainPc = "step4"
    /\ task' = [s \in Solvers |-> [pc |-> "running", step |-> 0, success |-> FALSE]]
    /\ mainPc' = "collect"
    /\ UNCHANGED <<judgeVars, loopVars, retryVars, extractVars, logVars, jsonVars, pipeVars,
                   mainVerdict, report, exitStatus, written, handled, solver_ok>>

\* a worker writes the next file of its pipeline
SolverWrites(solver) ==
    /\ task[solver].pc = "running"
    /\ task[solver].step < Len(WritesOf(solver))
    /\ task' = [task EXCEPT ![solver].step = @ + 1]
    /\ written' = written \cup
           {[by |-> solver, dir |-> OutputDir(solver),
             name |-> WritesOf(solver)[task[solver].step + 1]]}
    /\ UNCHANGED <<judgeVars, mainVars, loopVars, retryVars, extractVars, logVars, jsonVars, pipeVars,
                   handled, solver_ok>>

\* a pipeline raises, at any point
SolverRaises(solver) ==
    /\ task[solver].pc = "running"
    /\ task' = [task EXCEPT ![solver].pc = "raised"]
    /\ UNCHANGED <<judgeVars, mainVars, loopVars, retryVars, extractVars, logVars, jsonVars, pipeVars,
                   written, handled, solver_ok>>

\* a pipeline returns its result
SolverReturns(solver) ==
    /\ task[solver].pc = "running"
    /\ CanReturn(solver, task[solver].step)
    /\ \E success \in BOOLEAN :
          /\ (task[solver].step < Len(WritesOf(solver))) => ~success
          /\ task' = [task EXCEPT ![solver].pc = "returned",
                                  ![solver].success = success]
    /\ UNCHANGED <<judgeVars, mainVars, loopVars, retryVars, extractVars, logVars, jsonVars, pipeVars,
                   written, handled, solver_ok>>

\* lines 243-253: one pass of `for future in as_completed(futures)`
HandleFuture(solver) ==
    /\ mainPc = "collect"
    /\ Terminated(solver)
    /\ solver \notin handled
    /\ handled' = handled \cup {solver}
    /\ IF task[solver].pc = "returned"
           THEN /\ solver_ok' =
                      [solver_ok EXCEPT ![solver] =
                          IF solver = "optimus" THEN TRUE ELSE task[solver].success]
                /\ UNCHANGED mainPc
       ELSE IF HandlerCatches("Exception")
           THEN UNCHANGED <<solver_ok, mainPc>>
       ELSE mainPc' = "aborted" /\ UNCHANGED solver_ok
    /\ UNCHANGED <<judgeVars, loopVars, retryVars, extractVars, logVars, jsonVars, pipeVars,
                   mainVerdict, report, exitStatus, task, written>>

\* lines 255-259: the pool is left and compare_solutions is called
CallJudge ==
    /\ mainPc = "collect"
    /\ AllHandled(handled)
    /\ mainPc' = "judge"
    /\ pc' = "start"
    /\ UNCHANGED <<fs, optimus, optimind, prog, llmResp, comparison, winner_name,
                   sanity, llmCalls, verdictFile, error, args, result, loopVars,
                   extVars, mainVerdict, report, exitStatus>>

InitRun ==
    /\ JudgeIdle
    /\ mainPc = "step4"
    /\ mainVerdict = None
    /\ report = ""
    /\ exitStatus = None
    /\ LoopIdle
    /\ ExtIdle

NextRun ==
    \/ Submit
    \/ \E solver \in Solvers : SolverWrites(solver)
    \/ \E solver \in Solvers : SolverRaises(solver)
    \/ \E solver \in Solvers : SolverReturns(solver)
    \/ \E solver \in Solvers : HandleFuture(solver)
    \/ CallJudge

\* every thread that can take a step eventually takes one
SpecRun == InitRun /\ [][NextRun]_vars /\ WF_vars(NextRun)

\* ------------------------------------------------------------------------
\* Stage 1 of the OptiMUS pipeline (backend/optimus.py): get_objective and
\* get_constraints run in two worker threads and are both handed the
\* _ThreadSafeLogger. How often a thread calls it is an input; no call at
\* all, which is what get_objective does as written, is among the inputs.

MaxLogCalls == 2

Stage1Threads == {"objective", "constraints"}

\* the positions of a thread inside Logger.log and Logger.reset
InsideWrite == {"in_log", "in_reset"}

\* a lock that is handed out whoever holds it
LockAvailableAlways(holder) == TRUE

\* threading.Lock: acquire succeeds only while nobody holds the lock
LockAvailable(holder) == IsNone(holder)

\* `with self._lock:` entered in log or in reset; a thread that finds the
\* lock held waits
LogAcquire(t) ==
    /\ logPc[t] = "running"
    /\ logLeft[t] > 0
    /\ LockAvailable(lock)
    /\ lock' = Some(t)
    /\ \E op \in InsideWrite : logPc' = [logPc EXCEPT ![t] = op]
    /\ UNCHANGED <<judgeVars, mainVars, loopVars, retryVars, extractVars, runVars, jsonVars, pipeVars,
                   logLeft, logFile>>

\* Logger.log appends a line, Logger.reset empties the file
LogWrite(t) ==
    /\ logPc[t] \in InsideWrite
    /\ logFile' = IF logPc[t] = "in_log" THEN Append(logFile, t) ELSE <<>>
    /\ logPc' = [logPc EXCEPT ![t] = "written"]
    /\ UNCHANGED <<judgeVars, mainVars, loopVars, retryVars, extractVars, runVars, jsonVars, pipeVars,
                   lock, logLeft>>

\* the with block is left
LogRelease(t) ==
    /\ logPc[t] = "written"
    /\ lock' = None
    /\ logLeft' = [logLeft EXCEPT ![t] = @ - 1]
    /\ logPc' = [logPc EXCEPT ![t] = "running"]
    /\ UNCHANGED <<judgeVars, mainVars, loopVars, retryVars, extractVars, runVars, jsonVars, pipeVars,
                   logFile>>

\* the extractor returns
ExtractorDone(t) ==
    /\ logPc[t] = "running"
    /\ logLeft[t] = 0
    /\ logPc' = [logPc EXCEPT ![t] = "done"]
    /\ UNCHANGED <<judgeVars, mainVars, loopVars, retryVars, extractVars, runVars, jsonVars, pipeVars,
                   lock, logLeft, logFile>>

\* lines 96-136: the log has been reset by the main thread, the lock is
\* new, both extractors have been submitted
InitLog ==
    /\ lock = None
    /\ logPc = [t \in Stage1Threads |-> "running"]
    /\ logLeft \in [Stage1Threads -> 0..MaxLogCalls]
    /\ logFile = <<>>
    /\ JudgeIdle
    /\ MainIdle
    /\ LoopIdle
    /\ RetryIdle
    /\ ExtractIdle
    /\ RunIdle
    /\ JsonIdle
    /\ PipeIdle

NextLog ==
    \/ \E t \in Stage1Threads : LogAcquire(t)
    \/ \E t \in Stage1Threads : LogWrite(t)
    \/ \E t \in Stage1Threads : LogRelease(t)
    \/ \E t \in Stage1Threads : ExtractorDone(t)

SpecLog == InitLog /\ [][NextLog]_vars

\* ------------------------------------------------------------------------
\* _trim_gurobi_output (judge.py). A log is a sequence of lines; a line is
\* its leading blanks and what follows them, and the samples stand for lines
\* that begin with that text.

MaxTrimLines == 3

max_lines == 15

\* skip_patterns: one written without leading blanks, one with two
skip_patterns ==
    {[lead |-> 0, body |-> "Set parameter"], [lead |-> 2, body |-> "Matrix range"]}

TrimLineSamples ==
    {[lead |-> 0, body |-> ""],
     [lead |-> 0, body |-> "Set parameter"],
     [lead |-> 2, body |-> "Set parameter"],
     [lead |-> 2, body |-> "Matrix range"],
     [lead |-> 0, body |-> "* 0 0 5.0"],
     [lead |-> 0, body |-> "0 0 | 5.0"],
     [lead |-> 0, body |-> "Optimal objective 5"]}

\* str.strip on one line
StripLine(line) == [line EXCEPT !.lead = 0]

\* str.startswith
StartsWith(line, p) == line.lead = p.lead /\ line.body = p.body

LastN(seq, n) ==
    IF Len(seq) <= n THEN seq ELSE SubSeq(seq, Len(seq) - n + 1, Len(seq))

RECURSIVE DropBlankHead(_)
DropBlankHead(lines) ==
    IF lines = <<>> THEN <<>>
    ELSE IF Head(lines).body = "" THEN DropBlankHead(Tail(lines))
    ELSE lines

RECURSIVE DropBlankTail(_)
DropBlankTail(lines) ==
    IF lines = <<>> THEN <<>>
    ELSE IF lines[Len(lines)].body = "" THEN DropBlankTail(SubSeq(lines, 1, Len(lines) - 1))
    ELSE lines

\* code_output.strip().splitlines(): blank lines at both ends go, and so do
\* the leading blanks of the first line left
StripSplitlines(text) ==
    LET inner == DropBlankTail(DropBlankHead(text))
    IN  IF inner = <<>> THEN <<>>
        ELSE <<StripLine(inner[1])>> \o Tail(inner)

\* lines 144-155: the loop's tests on a line, each on the stripped line
TrimSkips(line) ==
    LET stripped == StripLine(line)
    IN  \/ stripped.body = ""
        \/ stripped.body = "* 0 0 5.0"
        \/ \E p \in skip_patterns : StartsWith(stripped, p)
        \/ stripped.body = "0 0 | 5.0"

_trim_gurobi_output(code_output, max_lines_) ==
    IF IsNone(code_output) \/ code_output = Some(<<>>) THEN code_output
    ELSE LET lines == StripSplitlines(code_output[1])
             kept == SelectSeq(lines, LAMBDA line : ~TrimSkips(line))
         IN  Some(LastN(IF kept = <<>> THEN LastN(lines, 5) ELSE kept, max_lines_))

InitTrim ==
    /\ args \in [code_output : Optional(TextsUpTo(TrimLineSamples, MaxTrimLines)),
                 max_lines : {1, 2, max_lines}]
    /\ pc = "call"
    /\ result = None
    /\ fs = [description |-> FALSE, optimus_output |-> None, optimind_output |-> None]
    /\ optimus = None
    /\ optimind = None
    /\ prog = NoProg
    /\ llmResp = None
    /\ comparison = None
    /\ winner_name = None
    /\ sanity = None
    /\ llmCalls = 0
    /\ verdictFile = None
    /\ error = ""
    /\ MainIdle
    /\ LoopIdle
    /\ ExtIdle

TrimCall ==
    /\ pc = "call"
    /\ result' = Some(_trim_gurobi_output(args.code_output, args.max_lines))
    /\ pc' = "returned"
    /\ UNCHANGED <<extVars, fs, optimus, optimind, prog, llmResp, comparison, winner_name,
                   sanity, llmCalls, verdictFile, error, args, mainVars, loopVars>>

SpecTrim == InitTrim /\ [][TrimCall]_vars

\* ------------------------------------------------------------------------
\* prepare_workspace (query_manager.py). `disk` holds the workspace (its
\* directories and files) and the archives under the history directory; an
\* archive is named by a timestamp and a duplicate counter, <<t, c>>, and
\* names sort as the strings "t" < "t_1" < "t_2" do. The timestamp is the
\* local wall-clock time of the call, which need not be later than the
\* names already in the history directory.

MaxClock == 3

MaxArchives == 2

WorkspaceTree == {"current_query", "model_input", "optimus_output"}

WorkspaceFiles == {"model_input/desc.txt", "optimus_output/code.py"}

\* the workspaces a call can find: no directory, or the tree with some files
Workspaces ==
    {[dirs |-> {}, files |-> {}]}
        \cup {[dirs |-> WorkspaceTree, files |-> fs_] : fs_ \in SUBSET WorkspaceFiles}

\* the archives of earlier runs
Histories ==
    {{[name |-> <<t, 0>>, files |-> {"earlier run"}] : t \in ts} : ts \in SUBSET (1..MaxClock)}

\* string order of two archive names
NameLess(a, b) == a[1] < b[1] \/ (a[1] = b[1] /\ a[2] < b[2])

_has_content(workspace) == workspace.files # {}

\* lines 36-44: the timestamp, with the first free counter when it is taken
ArchivePath(history, now) ==
    LET taken == {a.name : a \in history}
        free == {c \in 0..Cardinality(history) : <<now, c>> \notin taken}
    IN  <<now, CHOOSE c \in free : \A d \in free : c <= d>>

\* lines 76-87: sorted by name, the oldest go until max_archives are left
RECURSIVE enforce_archive_limit(_, _)
enforce_archive_limit(history, max_archives) ==
    IF Cardinality(history) <= max_archives THEN history
    ELSE LET oldest == CHOOSE a \in history :
                           \A b \in history : a = b \/ NameLess(a.name, b.name)
         IN  enforce_archive_limit(history \ {oldest}, max_archives)

\* lines 51-65
clear_current_query(workspace) ==
    IF workspace.dirs = {} THEN [dirs |-> {"current_query"}, files |-> {}]
    ELSE [workspace EXCEPT !.files = {}]

\* archive_current_query: nothing to archive, or copytree into a new
\* directory, which can fail (the error leaves prepare_workspace)
ArchiveCurrentQuery ==
    /\ pc = "call"
    /\ args.archive
    /\ IF ~_has_content(disk.workspace)
           THEN /\ pc' = "archived"
                /\ UNCHANGED <<disk, error>>
       ELSE \/ /\ disk' = [disk EXCEPT
                               !.history = @ \cup {[name |-> ArchivePath(@, args.now),
                                                    files |-> disk.workspace.files]},
                               !.created = Some(ArchivePath(disk.history, args.now))]
               /\ pc' = "archived"
               /\ UNCHANGED error
            \/ /\ Raise("OSError")
               /\ UNCHANGED disk
    /\ UNCHANGED <<extVars, fs, optimus, optimind, prog, llmResp, comparison, winner_name,
                   sanity, llmCalls, verdictFile, args, result, mainVars,
                   loopCode, loopOutput, attempt, fixerCalls, execs>>

EnforceArchiveLimit ==
    /\ pc = "archived"
    /\ disk' = [disk EXCEPT !.history = enforce_archive_limit(@, args.max_archives)]
    /\ pc' = "limited"
    /\ UNCHANGED <<extVars, fs, optimus, optimind, prog, llmResp, comparison, winner_name,
                   sanity, llmCalls, verdictFile, error, args, result, mainVars,
                   loopCode, loopOutput, attempt, fixerCalls, execs>>

\* line 108, reached at once when archive is False
ClearCurrentQuery ==
    /\ pc = "limited" \/ (pc = "call" /\ ~args.archive)
    /\ disk' = [disk EXCEPT !.workspace = clear_current_query(@)]
    /\ pc' = "returned"
    /\ UNCHANGED <<extVars, fs, optimus, optimind, prog, llmResp, comparison, winner_name,
                   sanity, llmCalls, verdictFile, error, args, result, mainVars,
                   loopCode, loopOutput, attempt, fixerCalls, execs>>

InitPrepare ==
    /\ args \in [archive : BOOLEAN, max_archives : 1..MaxArchives, now : 1..MaxClock,
                 before : Workspaces, history : Histories]
    /\ disk = [workspace |-> args.before, history |-> args.history, created |-> None]
    /\ pc = "call"
    /\ result = None
    /\ loopCode = None
    /\ loopOutput = None
    /\ attempt = 0
    /\ fixerCalls = 0
    /\ execs = <<>>
    /\ fs = [description |-> FALSE, optimus_output |-> None, optimind_output |-> None]
    /\ optimus = None
    /\ optimind = None
    /\ prog = NoProg
    /\ llmResp = None
    /\ comparison = None
    /\ winner_name = None
    /\ sanity = None
    /\ llmCalls = 0
    /\ verdictFile = None
    /\ error = ""
    /\ MainIdle
    /\ ExtIdle

NextPrepare ==
    \/ ArchiveCurrentQuery
    \/ EnforceArchiveLimit
    \/ ClearCurrentQuery

SpecPrepare == InitPrepare /\ [][NextPrepare]_vars

\* ------------------------------------------------------------------------
\* OptiMind run_pipeline up to the call of _execute_and_debug
\* (backend/optimind.py lines 379-442). A response is the sequence of its
\* fenced code blocks; the loop that follows is the one of SpecLoop.

MaxBlocks == 2

\* a code block: its text and whether it imports gurobipy
BlockSamples ==
    {[gurobipy |-> FALSE, text |-> <<"x">>],
     [gurobipy |-> TRUE, text |-> <<"m = gp.Model(">>],
     [gurobipy |-> TRUE, text |-> <<"prob = Model(", "output_solution", ".txt">>],
     [gurobipy |-> FALSE, text |-> <<"output_solution", ".txt">>]}

ModelResponses == TextsUpTo(BlockSamples, MaxBlocks)

\* what _query_model does: it raises, or returns a response
QueryOutcomes ==
    {[raised |-> "APIConnectionError", response |-> <<>>]}
        \cup {[raised |-> "", response |-> r] : r \in ModelResponses}

\* _extract_code that answers an empty program when there is no block
_extract_code_empty(response_text) ==
    LET preferred == SelectSeq(response_text, LAMBDA b : b.gurobipy)
    IN  IF response_text = <<>> THEN Some(<<>>)
        ELSE IF preferred # <<>> THEN Some(preferred[1].text)
        ELSE Some(response_text[1].text)

\* lines 182-198: the first block that imports gurobipy, else the first
\* block, None without blocks
_extract_code(response_text) ==
    LET preferred == SelectSeq(response_text, LAMBDA b : b.gurobipy)
    IN  IF response_text = <<>> THEN None
        ELSE IF preferred # <<>> THEN Some(preferred[1].text)
        ELSE Some(response_text[1].text)

\* the files of optimind_output: those of the loop and the saved response
OutputFiles(response) ==
    [canonical |-> None,
     versions |-> [k \in 1..DEBUG_MAX_RETRIES |-> None],
     errors |-> [k \in 0..DEBUG_MAX_RETRIES |-> None],
     code_output |-> None,
     output_solution |-> None,
     optimind_response |-> response]

\* the result returned without a program
Degraded(response) ==
    [response |-> response, code |-> None, code_output |-> None,
     success |-> FALSE, objective_value |-> None]

\* lines 402-405 and 150-169: the output directory is made, the problem read
ReadProblem ==
    /\ pc = "call"
    /\ disk' = OutputFiles(None)
    /\ IF ~args.desc \/ ~args.params THEN Raise("FileNotFoundError")
       ELSE pc' = "query" /\ error' = error
    /\ UNCHANGED <<extVars, fs, optimus, optimind, prog, llmResp, comparison, winner_name,
                   sanity, llmCalls, verdictFile, args, result, mainVars,
                   loopCode, loopOutput, attempt, fixerCalls, execs>>

\* lines 414-426: the query; an exception gives the degraded result, a
\* response is saved
QueryModel ==
    /\ pc = "query"
    /\ llmCalls' = llmCalls + 1
    /\ IF args.outcome.raised # ""
           THEN /\ result' = Some(Degraded(<<>>))
                /\ pc' = "returned"
                /\ UNCHANGED disk
       ELSE /\ disk' = [disk EXCEPT !.optimind_response = Some(args.outcome.response)]
            /\ pc' = "extract"
            /\ UNCHANGED result
    /\ UNCHANGED <<extVars, fs, optimus, optimind, prog, llmResp, comparison, winner_name,
                   sanity, verdictFile, error, args, mainVars,
                   loopCode, loopOutput, attempt, fixerCalls, execs>>

\* lines 428-442: no block gives the degraded result; a block is patched
\* and handed to _execute_and_debug
ExtractAndPatch ==
    /\ pc = "extract"
    /\ LET code == _extract_code(args.outcome.response)
       IN  IF IsNone(code)
               THEN /\ result' = Some(Degraded(args.outcome.response))
                    /\ pc' = "returned"
                    /\ UNCHANGED loopCode
           ELSE /\ loopCode' = Some(_patch_code(code[1]))
                /\ pc' = "enter"
                /\ UNCHANGED result
    /\ UNCHANGED <<extVars, fs, optimus, optimind, prog, llmResp, comparison, winner_name,
                   sanity, llmCalls, verdictFile, error, args, mainVars,
                   disk, loopOutput, attempt, fixerCalls, execs>>

\* lines 309-323 of _execute_and_debug: the program is written and run
EnterLoop ==
    /\ pc = "enter"
    /\ \E outcome \in ExecOutcomes :
          LET d == [disk EXCEPT !.canonical = loopCode]
          IN  /\ disk' = [d EXCEPT
                             !.code_output = IF Truthy(_execute_code(outcome).written)
                                                 THEN _execute_code(outcome).written
                                             ELSE @,
                             !.output_solution = IF Truthy(outcome.wrote) THEN outcome.wrote
                                                 ELSE @]
              /\ execs' = Append(execs, Execution(0, loopCode[1], outcome, d))
    /\ pc' = "executed"
    /\ UNCHANGED <<extVars, fs, optimus, optimind, prog, llmResp, comparison, winner_name,
                   sanity, llmCalls, verdictFile, error, args, result, mainVars,
                   loopCode, loopOutput, attempt, fixerCalls>>

InitGenerate ==
    /\ args \in [desc : BOOLEAN, params : BOOLEAN, outcome : QueryOutcomes]
    /\ pc = "call"
    /\ result = None
    /\ LoopIdle
    /\ fs = [description |-> FALSE, optimus_output |-> None, optimind_output |-> None]
    /\ optimus = None
    /\ optimind = None
    /\ prog = NoProg
    /\ llmResp = None
    /\ comparison = None
    /\ winner_name = None
    /\ sanity = None
    /\ llmCalls = 0
    /\ verdictFile = None
    /\ error = ""
    /\ MainIdle
    /\ ExtIdle

NextGenerate ==
    \/ ReadProblem
    \/ QueryModel
    \/ ExtractAndPatch
    \/ EnterLoop

SpecGenerate == InitGenerate /\ [][NextGenerate]_vars

\* ------------------------------------------------------------------------
\* extract_json_from_end and extract_json_from_end_backup
\* (optimus_utils.py). A text is a sequence of characters; "a" stands for
\* any character that is none of the others. Every loop iteration is one
\* step. The sample texts hold no code fence.

MaxTextLen == 4

\* the length of text at which building a longer one is a MemoryError
MaxMemory == 8

Chars == {"{", "}", "/", "\n", "\\", "a"}

JsonTexts == TextsUpTo(Chars, MaxTextLen)

\* text[i] is defined for -len <= i < len
IndexInRange(t, i) == i < Len(t) /\ i >= 0 - Len(t)

CharAt(t, i) == IF i >= 0 THEN t[i + 1] ELSE t[Len(t) + i + 1]

\* text[:k] for k >= 0
SliceTo(t, k) == SubSeq(t, 1, IF k < Len(t) THEN k ELSE Len(t))

\* text[k:]
SliceFrom(t, k) ==
    LET start == IF k >= 0 THEN k ELSE IF Len(t) + k >= 0 THEN Len(t) + k ELSE 0
    IN  SubSeq(t, start + 1, Len(t))

\* str.find(pattern, start): the first index from start on, -1 without one
Find(t, pattern, start) ==
    LET hits == {i \in start..(Len(t) - Len(pattern)) :
                    SubSeq(t, i + 1, i + Len(pattern)) = pattern}
    IN  IF hits = {} THEN -1 ELSE CHOOSE i \in hits : \A j \in hits : i <= j

\* str.replace("\\", "")
RemoveBackslashes(t) == SelectSeq(t, LAMBDA c : c # "\\")

\* json.loads: an object, white space aside; anything else does not decode
JsonDecodes(t) ==
    SelectSeq(t, LAMBDA c : c # "\n") \in {<<"{", "}">>, <<"{", "a", "}">>}

JsonUnchanged ==
    UNCHANGED <<judgeVars, mainVars, loopVars, retryVars, extractVars, runVars, logVars,
                pipeVars>>

\* an exception inside extract_json_from_end_backup: `except: pass`, and
\* extract_json_from_end goes on with its own code
BackupRaises ==
    /\ jsonPc' = "find_start"
    /\ UNCHANGED <<json_text, ind, cnt>>

\* lines 108-112 (the fence test is false) and line 62
EnterBackup ==
    /\ jsonPc = "call"
    /\ json_text' = args.text
    /\ ind' = Len(args.text) - 1
    /\ cnt' = 0
    /\ jsonPc' = "backup_scan"
    /\ JsonUnchanged

\* lines 113-119: one test of `while text[ind] != "}"`
BackupScan ==
    /\ jsonPc = "backup_scan"
    /\ IF ~IndexInRange(json_text, ind) THEN BackupRaises
       ELSE IF CharAt(json_text, ind) # "}"
           THEN /\ ind' = ind - 1
                /\ UNCHANGED <<jsonPc, json_text, cnt>>
       ELSE /\ json_text' = SliceTo(json_text, ind + 1)
            /\ ind' = ind - 1
            /\ cnt' = 1
            /\ jsonPc' = "backup_match"
    /\ JsonUnchanged

\* lines 120-125: one test of `while cnt > 0`
BackupMatch ==
    /\ jsonPc = "backup_match"
    /\ IF cnt <= 0
           THEN /\ jsonPc' = "backup_comments"
                /\ UNCHANGED <<json_text, ind, cnt>>
       ELSE IF ~IndexInRange(json_text, ind) THEN BackupRaises
       ELSE /\ cnt' = CASE CharAt(json_text, ind) = "}" -> cnt + 1
                         [] CharAt(json_text, ind) = "{" -> cnt - 1
                         [] OTHER -> cnt
            /\ ind' = ind - 1
            /\ UNCHANGED <<jsonPc, json_text>>
    /\ JsonUnchanged

\* lines 128-133: one pass of `while True`; with no newline after the "//"
\* ind_end is -1 and the whole text is appended to what stood before the
\* "//"
BackupComments ==
    /\ jsonPc = "backup_comments"
    /\ LET ind_comment == Find(json_text, <<"/", "/">>, 0)
           ind_end == Find(json_text, <<"\n">>, ind_comment)
           shorter == SliceTo(json_text, ind_comment) \o SliceFrom(json_text, ind_end + 1)
       IN  IF ind_comment = -1
               THEN /\ jsonPc' = "backup_loads"
                    /\ UNCHANGED <<json_text, ind, cnt>>
           ELSE IF Len(shorter) > MaxMemory THEN BackupRaises
           ELSE /\ json_text' = shorter
                /\ UNCHANGED <<jsonPc, ind, cnt>>
    /\ JsonUnchanged

\* lines 136-137
BackupLoads ==
    /\ jsonPc = "backup_loads"
    /\ IF JsonDecodes(SliceFrom(json_text, ind + 1))
           THEN /\ jsonPc' = "returned"
                /\ UNCHANGED <<json_text, ind, cnt>>
       ELSE BackupRaises
    /\ JsonUnchanged

\* lines 67-81
FindStart ==
    /\ jsonPc = "find_start"
    /\ LET json_start == Find(args.text, <<"{">>, 0)
           stripped == RemoveBackslashes(SliceFrom(args.text, json_start))
       IN  IF json_start = -1
               THEN /\ jsonPc' = "raised"
                    /\ UNCHANGED <<json_text, ind, cnt>>
           ELSE /\ json_text' = stripped
                /\ ind' = Len(stripped) - 1
                /\ cnt' = 0
                /\ jsonPc' = "scan"
    /\ JsonUnchanged

\* lines 80-87: one test of `while json_text[ind] != "}"`
Scan ==
    /\ jsonPc = "scan"
    /\ IF ~IndexInRange(json_text, ind)
           THEN /\ jsonPc' = "raised"
                /\ UNCHANGED <<json_text, ind, cnt>>
       ELSE IF CharAt(json_text, ind) # "}"
           THEN /\ ind' = ind - 1
                /\ UNCHANGED <<jsonPc, json_text, cnt>>
       ELSE /\ json_text' = SliceTo(json_text, ind + 1)
            /\ ind' = ind - 1
            /\ cnt' = 1
            /\ jsonPc' = "match"
    /\ JsonUnchanged

\* lines 88-96: one test of `while cnt > 0 and ind >= 0`
Match ==
    /\ jsonPc = "match"
    /\ IF cnt > 0 /\ ind >= 0
           THEN /\ cnt' = CASE CharAt(json_text, ind) = "}" -> cnt + 1
                             [] CharAt(json_text, ind) = "{" -> cnt - 1
                             [] OTHER -> cnt
                /\ ind' = ind - 1
                /\ UNCHANGED <<jsonPc, json_text>>
       ELSE /\ json_text' = SliceFrom(json_text, ind + 1)
            /\ jsonPc' = "loads"
            /\ UNCHANGED <<ind, cnt>>
    /\ JsonUnchanged

\* lines 98-104
Loads ==
    /\ jsonPc = "loads"
    /\ jsonPc' = IF JsonDecodes(json_text) THEN "returned" ELSE "raised"
    /\ UNCHANGED <<json_text, ind, cnt>>
    /\ JsonUnchanged

InitJson ==
    /\ args \in [text : JsonTexts]
    /\ jsonPc = "call"
    /\ json_text = <<>>
    /\ ind = 0
    /\ cnt = 0
    /\ pc = "idle"
    /\ result = None
    /\ fs = [description |-> FALSE, optimus_output |-> None, optimind_output |-> None]
    /\ optimus = None
    /\ optimind = None
    /\ prog = NoProg
    /\ llmResp = None
    /\ comparison = None
    /\ winner_name = None
    /\ sanity = None
    /\ llmCalls = 0
    /\ verdictFile = None
    /\ error = ""
    /\ MainIdle
    /\ LoopIdle
    /\ RetryIdle
    /\ ExtractIdle
    /\ RunIdle
    /\ LogIdle
    /\ PipeIdle

NextJson ==
    \/ EnterBackup
    \/ BackupScan
    \/ BackupMatch
    \/ BackupComments
    \/ BackupLoads
    \/ FindStart
    \/ Scan
    \/ Match
    \/ Loads

\* the interpreter keeps running the function
SpecJson == InitJson /\ [][NextJson]_vars /\ WF_vars(NextJson)

\* ------------------------------------------------------------------------
\* The OptiMUS run_pipeline (backend/optimus.py, with Steps 2 and 3 in a
\* thread pool) and create_state (optimus_utils.py). `files` is the run
\* directory: data.json, the six snapshots and code.py. The stage functions
\* are called with parts of the state and answer with new parts; what they
\* answer is drawn from samples.

MaxParamValue == 2

ParamSymbols == {"P", "Q"}

\* an entry of params.json, with or without its value
ParamEntries ==
    [definition : {"d"}, value : 1..MaxParamValue] \cup [definition : {"d"}]

ParamDocs == UNION {[S -> ParamEntries] : S \in SUBSET ParamSymbols}

FileNames ==
    {"data.json", "state_1_params.json", "state_2_objective.json",
     "state_3_constraints.json", "state_4_constraints_modeled.json",
     "state_5_objective_modeled.json", "state_6_code.json", "code.py"}

Snapshots == FileNames \ {"data.json", "code.py"}

\* an objective or a constraint: its description, then its formulation,
\* then its code
Item(description) == [description |-> description, formulation |-> None, code |-> None]

\* json.dump and json.load of a state: the file holds the document
save_state(state_) == Some([json |-> state_])

load_state(file) == file[1].json

\* create_state that leaves the values in the parameters
create_state_keep(params, desc) ==
    IF \E k \in DOMAIN params : "value" \notin DOMAIN params[k]
        THEN [raised |-> "KeyError", data |-> None, state |-> None]
    ELSE IF IsNone(desc)
        THEN [raised |-> "FileNotFoundError",
              data |-> Some([k \in DOMAIN params |-> params[k].value]),
              state |-> None]
    ELSE [raised |-> "",
          data |-> Some([k \in DOMAIN params |-> params[k].value]),
          state |-> Some([description |-> desc[1],
                          parameters |-> params,
                          objective |-> None, constraints |-> None,
                          variables |-> None])]

\* optimus_utils.py lines 264-284: [raised, data written, state returned]
create_state(params, desc) ==
    IF \E k \in DOMAIN params : "value" \notin DOMAIN params[k]
        THEN [raised |-> "KeyError", data |-> None, state |-> None]
    ELSE IF IsNone(desc)
        THEN [raised |-> "FileNotFoundError",
              data |-> Some([k \in DOMAIN params |-> params[k].value]),
              state |-> None]
    ELSE [raised |-> "",
          data |-> Some([k \in DOMAIN params |-> params[k].value]),
          state |-> Some([description |-> desc[1],
                          parameters |->
                              [k \in DOMAIN params |->
                                  [f \in DOMAIN params[k] \ {"value"} |-> params[k][f]]],
                          objective |-> None, constraints |-> None,
                          variables |-> None])]

Extractors == {"objective", "constraints"}

\* run_pipeline of optimus.py extracts the objective, saves, then extracts
\* the constraints; the one of backend/optimus.py submits both to a pool
Variants == {"sequential", "pool"}

\* what get_objective and get_constraints answer
ExtractionResults(t) ==
    IF t = "objective" THEN {Item("o1"), Item("o2")}
    ELSE {<<>>, <<Item("c1")>>}

SequentialStages ==
    {"formulate_constraints", "formulate_objective", "get_codes", "assemble"}

\* an order that goes from the extraction straight to the objective
StageAfterSkipping(position) ==
    CASE position = "saved_3" -> "formulate_objective"
      [] position = "saved_4" -> "formulate_objective"
      [] position = "saved_5" -> "get_codes"
      [] position = "saved_6" -> "assemble"
      [] OTHER -> "none"

\* the stage run_pipeline goes on with after each save
StageAfter(position) ==
    CASE position = "saved_3" -> "formulate_constraints"
      [] position = "saved_4" -> "formulate_objective"
      [] position = "saved_5" -> "get_codes"
      [] position = "saved_6" -> "assemble"
      [] OTHER -> "none"

\* the snapshot a stage loads
StageLoads(stage) ==
    CASE stage = "extract" -> "state_1_params.json"
      [] stage = "extract_constraints" -> "state_2_objective.json"
      [] stage = "formulate_constraints" -> "state_3_constraints.json"
      [] stage = "formulate_objective" -> "state_4_constraints_modeled.json"
      [] stage = "get_codes" -> "state_5_objective_modeled.json"
      [] stage = "assemble" -> "state_6_code.json"

\* the file a stage's result is saved in
StageSaves(stage) ==
    CASE stage = "formulate_constraints" -> "state_4_constraints_modeled.json"
      [] stage = "formulate_objective" -> "state_5_objective_modeled.json"
      [] stage = "get_codes" -> "state_6_code.json"
      [] stage = "assemble" -> "code.py"

\* where run_pipeline is after a stage
SavedLabel(stage) ==
    CASE stage = "formulate_constraints" -> "saved_4"
      [] stage = "formulate_objective" -> "saved_5"
      [] stage = "get_codes" -> "saved_6"
      [] stage = "assemble" -> "returned"

\* the states a stage can leave: the assignments of run_pipeline with what
\* the stage function answered
StageResults(stage, st) ==
    CASE stage = "formulate_constraints" ->
            {[st EXCEPT
                 !.constraints =
                     Some([i \in 1..Len(st.constraints[1]) |->
                              [st.constraints[1][i] EXCEPT !.formulation = Some("f")]]),
                 !.variables = Some(vs)] : vs \in {{"x"}, {"x", "y"}}}
      [] stage = "formulate_objective" ->
            {[st EXCEPT !.objective = Some([st.objective[1] EXCEPT !.formulation = Some(f)])] :
                f \in {"f", "g"}}
      [] stage = "get_codes" ->
            {[st EXCEPT
                 !.constraints =
                     Some([i \in 1..Len(st.constraints[1]) |->
                              [st.constraints[1][i] EXCEPT !.code = Some("c")]]),
                 !.objective = Some([st.objective[1] EXCEPT !.code = Some("c")])]}
      [] stage = "assemble" -> {st}

PipeUnchanged ==
    UNCHANGED <<judgeVars, mainVars, loopVars, retryVars, extractVars, runVars, logVars,
                jsonVars>>

\* lines 92-98: create_state, the first snapshot, the log reset
CreateState ==
    /\ pipePc = "call"
    /\ LET made == create_state(args.params, args.desc)
       IN  /\ state' = made.state
           /\ files' = [files EXCEPT
                           !["data.json"] = made.data,
                           !["state_1_params.json"] =
                               IF made.raised = "" THEN save_state(made.state[1]) ELSE @]
           /\ pipePc' = IF made.raised = "" THEN "saved_1" ELSE "raised"
    /\ UNCHANGED <<started, workers>>
    /\ PipeUnchanged

\* lines 102 and 125-135: the snapshot is loaded, both extractors submitted
StartExtraction ==
    /\ pipePc = "saved_1"
    /\ started' = started \cup {"extract"}
    /\ state' = Some(load_state(files[StageLoads("extract")]))
    /\ workers' = [t \in Extractors |->
                       [pc |-> IF args.variant = "pool" \/ t = "objective"
                                  THEN "running" ELSE "idle",
                        result |-> None]]
    /\ pipePc' = "extracting"
    /\ UNCHANGED files
    /\ PipeUnchanged

ExtractorReturns(t) ==
    /\ pipePc = "extracting"
    /\ workers[t].pc = "running"
    /\ \E r \in ExtractionResults(t) :
          workers' = [workers EXCEPT ![t] = [pc |-> "done", result |-> Some(r)]]
    /\ UNCHANGED <<pipePc, state, files, started>>
    /\ PipeUnchanged

ExtractorRaises(t) ==
    /\ pipePc = "extracting"
    /\ workers[t].pc = "running"
    /\ workers' = [workers EXCEPT ![t] = [pc |-> "raised", result |-> None]]
    /\ UNCHANGED <<pipePc, state, files, started>>
    /\ PipeUnchanged

\* optimus.py lines 80-84: the objective is put in the state, the state
\* saved and loaded again, and get_constraints called
SaveObjective ==
    /\ pipePc = "extracting"
    /\ args.variant = "sequential"
    /\ workers["objective"].pc = "done"
    /\ workers["constraints"].pc = "idle"
    /\ LET with_objective == [state[1] EXCEPT !.objective = workers["objective"].result]
       IN  /\ files' = [files EXCEPT !["state_2_objective.json"] = save_state(with_objective)]
           /\ state' = Some(load_state(save_state(with_objective)))
    /\ started' = started \cup {"extract_constraints"}
    /\ workers' = [workers EXCEPT !["constraints"].pc = "running"]
    /\ UNCHANGED pipePc
    /\ PipeUnchanged

\* backend/optimus.py lines 136-146: both results are taken when the pool
\* has shut down, put in the state, and the state saved twice; optimus.py
\* lines 94-96: the constraints are put in the state and the state saved
JoinAndSave ==
    /\ pipePc = "extracting"
    /\ \A t \in Extractors : workers[t].pc # "running"
    /\ workers["constraints"].pc = "idle" => workers["objective"].pc = "raised"
    /\ IF \E t \in Extractors : workers[t].pc = "raised"
           THEN /\ pipePc' = "raised"
                /\ UNCHANGED <<state, files>>
       ELSE LET merged == [state[1] EXCEPT
                              !.objective = workers["objective"].result,
                              !.constraints = workers["constraints"].result]
            IN  /\ state' = Some(merged)
                /\ files' = [files EXCEPT
                                !["state_2_objective.json"] =
                                    IF args.variant = "pool" THEN save_state(merged) ELSE @,
                                !["state_3_constraints.json"] = save_state(merged)]
                /\ pipePc' = "saved_3"
    /\ UNCHANGED <<started, workers>>
    /\ PipeUnchanged

\* the load_state that opens Steps 4, 5, 6 and 7-8
StartStage(stage) ==
    /\ StageAfter(pipePc) = stage
    /\ started' = started \cup {stage}
    /\ IF IsNone(files[StageLoads(stage)])
           THEN /\ pipePc' = "raised"
                /\ UNCHANGED state
       ELSE /\ state' = Some(load_state(files[StageLoads(stage)]))
            /\ pipePc' = stage
    /\ UNCHANGED <<files, workers>>
    /\ PipeUnchanged

\* the stage function returns; its answer is put in the state and the state
\* saved (Steps 7-8 write code.py and return the state)
FinishStage(stage) ==
    /\ pipePc = stage
    /\ \E new \in StageResults(stage, state[1]) :
          /\ state' = Some(new)
          /\ files' = [files EXCEPT ![StageSaves(stage)] = save_state(new)]
    /\ pipePc' = SavedLabel(stage)
    /\ UNCHANGED <<started, workers>>
    /\ PipeUnchanged

\* the stage function raises
FailStage(stage) ==
    /\ pipePc = stage
    /\ pipePc' = "raised"
    /\ UNCHANGED <<state, files, started, workers>>
    /\ PipeUnchanged

InitPipeline ==
    /\ args \in [params : ParamDocs, desc : Optional({"maximize profit"}),
                  variant : Variants]
    /\ pipePc = "call"
    /\ state = None
    /\ files = [n \in FileNames |-> None]
    /\ started = {}
    /\ workers = [t \in Extractors |-> [pc |-> "idle", result |-> None]]
    /\ pc = "idle"
    /\ result = None
    /\ fs = [description |-> FALSE, optimus_output |-> None, optimind_output |-> None]
    /\ optimus = None
    /\ optimind = None
    /\ prog = NoProg
    /\ llmResp = None
    /\ comparison = None
    /\ winner_name = None
    /\ sanity = None
    /\ llmCalls = 0
    /\ verdictFile = None
    /\ error = ""
    /\ MainIdle
    /\ LoopIdle
    /\ RetryIdle
    /\ ExtractIdle
    /\ RunIdle
    /\ LogIdle
    /\ JsonIdle

NextPipeline ==
    \/ CreateState
    \/ StartExtraction
    \/ \E t \in Extractors : ExtractorReturns(t)
    \/ \E t \in Extractors : ExtractorRaises(t)
    \/ SaveObjective
    \/ JoinAndSave
    \/ \E stage \in SequentialStages : StartStage(stage)
    \/ \E stage \in SequentialStages : FinishStage(stage)
    \/ \E stage \in SequentialStages : FailStage(stage)

SpecPipeline == InitPipeline /\ [][NextPipeline]_vars

\* ------------------------------------------------------------------------
\* Properties

\* the execution status of a variant: that of its record, not_run without one
StatusOf(solver) ==
    IF Truthy(solver) THEN solver[1].execution_status ELSE "not_run"

Succeeded(solver) == StatusOf(solver) \in {"optimal", "feasible"}

\* the winner the LLM's answer names, when it is an object that names one
LlmNamed(w) ==
    /\ Truthy(llmResp)
    /\ llmResp[1].body.kind \in {"object", "prose_object"}
    /\ llmResp[1].body.winner = Some(w)

PastLayer1 == pc \in {"llm", "sanity", "verdict", "done"}

\* C1: the winner of a written verdict is never a variant whose execution
\* status is outside {optimal, feasible} while the other variant's status is
\* inside it.
C1_WinnerNotFailedOverSucceeded ==
    Truthy(verdictFile) =>
        /\ ~(/\ verdictFile[1].winner = "optimus"
             /\ ~Succeeded(optimus)
             /\ Succeeded(optimind))
        /\ ~(/\ verdictFile[1].winner = "optimind"
             /\ ~Succeeded(optimind)
             /\ Succeeded(optimus))

\* C1 witness: OptiMUS crashed, OptiMind succeeded, the LLM named OptiMUS,
\* and the verdict names OptiMind.
C1_Witness ==
    /\ pc = "done"
    /\ StatusOf(optimus) = "error"
    /\ StatusOf(optimind) = "optimal"
    /\ LlmNamed("optimus")
    /\ verdictFile[1].winner = "optimind"

\* C2: when exactly one status is in {optimal, feasible}, _sanity_check
\* returns the variant in the success set whatever winner it was handed, and
\* was_overridden is true exactly when the returned winner differs from the
\* one handed in.
C2_SanityOverrideSound ==
    pc = "returned" =>
        LET opt_in == Succeeded(IF Ok(args.optimus) THEN args.optimus ELSE None)
            mind_in == Succeeded(IF Ok(args.optimind) THEN args.optimind ELSE None)
        IN  /\ (opt_in /\ ~mind_in) => result[1].winner = "optimus"
            /\ (mind_in /\ ~opt_in) => result[1].winner = "optimind"
            /\ result[1].overridden <=> (result[1].winner # args.llm_winner)

\* C3: whenever compare_solutions has a winner and builds the verdict, the
\* sanity check was evaluated on that winner, after Layer 1 and after Layer 2
\* alike.
C3_SanityAlwaysEvaluated ==
    pc \in {"verdict", "done"} =>
        /\ Truthy(sanity)
        /\ winner_name = Some(sanity[1].final)

\* C3 as amended: the sanity check is evaluated on the winner before the
\* verdict is built exactly when Layer 1 returned no winner (the winner is
\* the LLM's); a Layer 1 winner goes into the verdict unchecked.
C3_SanityOnLlmWinnerOnly ==
    pc \in {"verdict", "done"} =>
        /\ IsNone(prog.winner) =>
              /\ Truthy(sanity)
              /\ LET ev == evaluate_solutions(llmResp[1])
                 IN  sanity[1].llm_winner = ev.value.winner[1]
              /\ winner_name = Some(sanity[1].final)
        /\ Truthy(prog.winner) =>
              /\ IsNone(sanity)
              /\ winner_name = prog.winner

\* C3 witness: a verdict whose winner is the LLM's and was sanity-checked.
C3_Witness ==
    /\ pc = "done"
    /\ IsNone(prog.winner)
    /\ Truthy(sanity)
    /\ LlmNamed("optimind")
    /\ sanity[1].llm_winner = "optimind"
    /\ verdictFile[1].winner = "optimind"

CrashMarked(log) ==
    \E i \in 1..Len(log) :
        \/ log[i] = "Traceback"
        \/ i < Len(log) /\ log[i] = "Execution" /\ log[i + 1] = "failed"

Marked(log, lower) ==
    \E i \in 1..Len(log) : UpperToken(log[i]) = UpperToken(lower)

\* C5: _classify_execution follows the ordered rule list: no log gives
\* not_run; else a crash marker gives error; else an infeasibility marker
\* without an optimality marker gives infeasible; else an unboundedness marker
\* without an optimality marker gives unbounded; else an objective with an
\* optimality marker gives optimal; else an objective gives feasible; else
\* no_result.
C5_ClassifyRuleList ==
    pc = "returned" =>
        LET status == result[1]
            log == args.code_output
            obj == args.objective_value
            crash == CrashMarked(log[1])
            infeasible == Marked(log[1], "infeasible")
            unbounded == Marked(log[1], "Unbounded")
            optimal == Marked(log[1], "Optimal")
        IN  /\ IsNone(log) => status = "not_run"
            /\ Truthy(log) =>
                /\ status # "not_run"
                /\ crash <=> status = "error"
                /\ (~crash /\ infeasible /\ ~optimal) <=> status = "infeasible"
                /\ (~crash /\ ~(infeasible /\ ~optimal) /\ unbounded /\ ~optimal)
                      <=> status = "unbounded"
                /\ (~crash /\ optimal /\ Truthy(obj)) <=> status = "optimal"
                /\ (~crash /\ ~infeasible /\ ~unbounded /\ ~optimal /\ Truthy(obj))
                      <=> status = "feasible"
                /\ (~crash /\ (optimal \/ (~infeasible /\ ~unbounded)) /\ IsNone(obj))
                      <=> status = "no_result"

\* C5 witness: a log with an infeasibility marker and an optimality marker,
\* classified optimal.
C5_Witness ==
    /\ pc = "returned"
    /\ Truthy(args.code_output)
    /\ Marked(args.code_output[1], "infeasible")
    /\ Marked(args.code_output[1], "Optimal")
    /\ ~CrashMarked(args.code_output[1])
    /\ result = Some("optimal")

\* C6: a loaded solver output has an objective value only if its execution
\* status is optimal or feasible.
C6_ObjectiveOnlyIfSucceeded ==
    \A solver \in {optimus, optimind} :
        (Truthy(solver) /\ Truthy(solver[1].objective_value)) =>
            solver[1].execution_status \in {"optimal", "feasible"}

\* C7: when exactly one variant is available, Layer 1 names it whatever its
\* status, the no-verdict error is not raised, and the verdict names it.
C7_OnlyAvailableWins ==
    \A a \in {"optimus", "optimind"} :
        LET mine == IF a = "optimus" THEN optimus ELSE optimind
            other == IF a = "optimus" THEN optimind ELSE optimus
        IN  (pc # "start" /\ Ok(mine) /\ ~Ok(other)) =>
                /\ PastLayer1 => prog.winner = Some(a)
                /\ error # "RuntimeError"
                /\ Truthy(verdictFile) => verdictFile[1].winner = a

\* C7 witness: OptiMUS is infeasible, OptiMind has no output directory, the
\* verdict names OptiMUS.
C7_Witness ==
    /\ pc = "done"
    /\ Ok(optimus)
    /\ StatusOf(optimus) = "infeasible"
    /\ IsNone(fs.optimind_output)
    /\ verdictFile[1].winner = "optimus"

\* C8: when both variants are available and exactly one succeeded, Layer 1
\* names it, the verdict names it whatever the LLM answered, and no override
\* is recorded.
C8_OneSucceededWins ==
    \A a \in {"optimus", "optimind"} :
        LET mine == IF a = "optimus" THEN optimus ELSE optimind
            other == IF a = "optimus" THEN optimind ELSE optimus
        IN  (Ok(mine) /\ Ok(other) /\ Succeeded(mine) /\ ~Succeeded(other)) =>
                /\ PastLayer1 => prog.winner = Some(a)
                /\ Truthy(verdictFile) =>
                      /\ verdictFile[1].winner = a
                      /\ IsNone(comparison[1].override_reason)
                /\ IsNone(sanity)

\* C8 witness: OptiMUS succeeded, OptiMind ran and failed, the LLM named
\* OptiMind, the verdict names OptiMUS.
C8_Witness ==
    /\ pc = "done"
    /\ Ok(optimus) /\ Ok(optimind)
    /\ Succeeded(optimus)
    /\ StatusOf(optimind) = "unbounded"
    /\ LlmNamed("optimind")
    /\ verdictFile[1].winner = "optimus"

\* C9: when both statuses are in {optimal, feasible}, Layer 1 returns no
\* winner, whether the objectives are equal or not; the verdict's winner is
\* the one the LLM named and Layer 3 does not override it.
C9_BothSucceededDeferToLlm ==
    (Succeeded(optimus) /\ Succeeded(optimind)) =>
        /\ PastLayer1 => IsNone(prog.winner)
        /\ Truthy(sanity) => ~sanity[1].overridden
        /\ Truthy(verdictFile) =>
              /\ IsNone(comparison[1].override_reason)
              /\ \A w \in WinnerValues : LlmNamed(w) => verdictFile[1].winner = w

\* C9 witness: both optimal, a maximization, OptiMUS has the lower objective,
\* the LLM named OptiMUS and the verdict names OptiMUS.
C9_Witness ==
    /\ pc = "done"
    /\ StatusOf(optimus) = "optimal"
    /\ StatusOf(optimind) = "optimal"
    /\ optimus[1].direction = Some("maximize")
    /\ optimus[1].objective_value = Some(1)
    /\ optimind[1].objective_value = Some(2)
    /\ LlmNamed("optimus")
    /\ verdictFile[1].winner = "optimus"

\* neither output directory holds code or an execution log
NeitherOnDisk ==
    \A d \in {fs.optimus_output, fs.optimind_output} :
        IsNone(d) \/ (IsNone(d[1].code) /\ IsNone(d[1].code_output))

\* C10: when neither variant is available, compare_solutions raises to its
\* caller without calling the LLM and without writing verdict.json.
C10_NeitherAvailableRaises ==
    NeitherOnDisk =>
        /\ pc \in {"start", "raised"}
        /\ pc = "raised" => error \in {"RuntimeError", "FileNotFoundError"}
        /\ llmCalls = 0
        /\ IsNone(verdictFile)

\* C10 witness: a description, two output directories without code or log,
\* and the no-verdict error raised.
C10_Witness ==
    /\ pc = "raised"
    /\ error = "RuntimeError"
    /\ fs.description
    /\ Truthy(fs.optimus_output) /\ Truthy(fs.optimind_output)
    /\ NeitherOnDisk
    /\ llmCalls = 0

\* C12: for every response text the LLM returns, evaluate_solutions returns
\* an object with a winner key and compare_solutions goes on to a verdict
\* without raising; a response that cannot be parsed into an object with a
\* winner yields the fallback, which names one variant and has a non-empty
\* reasoning.
C12_NeverRaisesOnLlmAnswer ==
    Truthy(llmResp) =>
        /\ pc # "raised"
        /\ Truthy(comparison)
        /\ comparison[1].type = "dict"
        /\ Truthy(comparison[1].winner)
        /\ LET parsed == _parse_llm_json(llmResp[1])
           IN  (IsNone(parsed) \/ parsed[1].type # "dict" \/ IsNone(parsed[1].winner)) =>
                  /\ Truthy(prog.winner) \/ comparison[1].winner = Some("optimus")
                  /\ Truthy(comparison[1].reasoning)
                  /\ comparison[1].reasoning[1] # ""

\* C13: the winner of every verdict compare_solutions writes is one of the
\* two variant names, whatever the LLM answered.
C13_WinnerIsVariantName ==
    Truthy(verdictFile) => verdictFile[1].winner \in {"optimus", "optimind"}

\* C11: main exits with status 0 exactly when a verdict was produced: the
\* exit status is non-zero whenever compare_solutions raised, and a failed
\* report stage leaves an exit status of 0 as it is.
C11_ExitZeroIffVerdict ==
    mainPc = "exited" =>
        /\ exitStatus = Some(0) <=> Truthy(verdictFile)
        /\ pc = "raised" => exitStatus # Some(0)

\* the judge's five top-level keys, with the nested per-variant fields
JudgeKeysPresent(verdict) ==
    /\ {"winner", "objective_value", "direction", "solvers", "reasoning"}
           \subseteq DOMAIN verdict
    /\ DOMAIN verdict.solvers = {"optimus", "optimind"}
    /\ \A n \in DOMAIN verdict.solvers :
           DOMAIN verdict.solvers[n] = {"status", "objective_value"}

\* C14: every verdict.json the judge writes has the keys winner,
\* objective_value, direction, solvers (per variant status and
\* objective_value) and reasoning, and after generate_report has rewritten
\* verdict.json every key the judge wrote is still there with the value the
\* judge gave it.
C14_EnrichmentAdditive ==
    /\ Truthy(verdictFile) => JudgeKeysPresent(verdictFile[1])
    /\ Truthy(mainVerdict) =>
           /\ Truthy(verdictFile)
           /\ \A k \in DOMAIN mainVerdict[1] :
                  /\ k \in DOMAIN verdictFile[1]
                  /\ verdictFile[1][k] = mainVerdict[1][k]

\* C14 witness: the report stage rewrote verdict.json with the three summary
\* fields and the run has exited.
C14_Witness ==
    /\ mainPc = "exited"
    /\ report = "written"
    /\ {"executive_summary", "has_baseline_comparison", "gurobi_stats"}
           \subseteq DOMAIN verdictFile[1]
    /\ verdictFile[1].gurobi_stats # {}

\* C20: patching the output of _patch_code again gives that same output, and
\* a program text that already holds the marker "output_solution.txt" is
\* returned as it is.
C20_PatchIdempotent ==
    /\ pc = "returned" => result[2] = result[1]
    /\ (pc \in {"patched", "returned"} /\ Contains(args, TrailerMarker)) =>
           result[1] = args

\* C20 witness: a text holding both fragments of the marker, but not in a
\* row, got the trailer for the model variable prob appended, and the second
\* patch returned the patched text.
C20_Witness ==
    /\ pc = "returned"
    /\ args = <<".txt", "prob = Model(", "output_solution">>
    /\ result[1] = args \o SOLUTION_TEMPLATE("prob")
    /\ result[2] = result[1]

\* the last execution made
LastExecution == execs[Len(execs)]

\* the repair attempts in which a program was executed, i.e. in which the
\* fixer returned code
AttemptsWithCode == {execs[i].attempt : i \in 2..Len(execs)}

C16_SuccessNeedsArtifact ==
    \A i \in 1..Len(execs) :
        execs[i].ok => (execs[i].exit_zero /\ Truthy(execs[i].artifact))

\* C17: a repair attempt whose fixer response has no code takes one slot of
\* the retry budget and runs no program: the fixer is never called more than
\* max_retries times, and the number of executions is 1 plus the number of
\* repair attempts in which the fixer returned code.
C17_NoCodeConsumesSlot ==
    /\ fixerCalls <= DEBUG_MAX_RETRIES
    /\ pc \in {"debug", "returned"} =>
           /\ Len(execs) = 1 + Cardinality({k \in 1..DEBUG_MAX_RETRIES :
                                               Truthy(disk.versions[k])})
           /\ \A i \in 2..Len(execs) : execs[i].attempt > execs[i - 1].attempt
    /\ pc = "debug" => fixerCalls = attempt - 1

\* C17 witness: the first three fixer responses held no code, the fourth
\* held a program that ran and succeeded: four fixer calls, two executions.
C17_Witness ==
    /\ pc = "returned"
    /\ result[1].success
    /\ fixerCalls = 4
    /\ Len(execs) = 2
    /\ AttemptsWithCode = {4}

\* C18: when _execute_and_debug returns, for every failed execution, the
\* initial one included, the program that was executed and its error output
\* are on disk under that attempt's name (the initial program under
\* optimind_code.py), not overwritten by a later attempt.
C18_FailedAttemptsPreserved ==
    pc = "returned" =>
        \A i \in 1..Len(execs) :
            ~execs[i].ok =>
                /\ disk.errors[execs[i].attempt] = Some(execs[i].output)
                /\ IF execs[i].attempt = 0
                       THEN disk.canonical = Some(execs[i].code)
                   ELSE disk.versions[execs[i].attempt] = Some(execs[i].code)

\* C19: whenever _execute_and_debug returns, optimind_code.py holds the last
\* program executed, which is the code returned, and code_output.txt holds
\* the output of that program.
C19_CanonicalIsMostRecent ==
    pc = "returned" =>
        /\ result[1].code = LastExecution.code
        /\ disk.canonical = Some(LastExecution.code)
        /\ disk.code_output = LastExecution.written

\* C21: every program the OptiMind pipeline writes to disk and executes, the
\* initial one and every fix, holds the trailer marker "output_solution.txt"
\* when it is executed.
C21_EveryExecutedVersionPatched ==
    \A i \in 1..Len(execs) :
        /\ Contains(execs[i].code, TrailerMarker)
        /\ execs[i].attempt = 0 => disk.canonical # None
        /\ execs[i].attempt > 0 =>
               disk.versions[execs[i].attempt] = Some(execs[i].code)

\* C21 witness: the fixer's program of attempt 2 came without the marker and
\* was executed with the trailer for its model variable appended.
C21_Witness ==
    /\ Len(execs) >= 2
    /\ LastExecution.attempt = 2
    /\ LastExecution.code =
           <<"prob = Model(", FixFragment(2)>> \o SOLUTION_TEMPLATE("prob")

\* C22: a non-zero exit, a timeout and a failure to launch all make
\* _execute_code return (log, False) with the log written to
\* code_output.txt, never raise; and the log of a failed attempt is the error
\* text the next fixer call is given.
C22_FailureIsData ==
    /\ \A i \in 1..Len(execs) :
           ~execs[i].exit_zero =>
               /\ execs[i].raised = ""
               /\ ~execs[i].ok
               /\ Truthy(execs[i].written)
    /\ pc = "debug" =>
           /\ loopOutput = Some(LastExecution.output)
           /\ disk.code_output = LastExecution.written

\* the backend call i failed with an error is_retryable accepts
FailedTransient(i) == ~rCalls[i].ok /\ is_retryable(rCalls[i].error[1])

RetryEnded == rPc \in {"returned", "raised"}

\* C23: one _retry_llm_call makes at most 4 backend calls; it returns the
\* result of the first call that succeeds, with no call after it; and when
\* 4 calls fail with transient errors it raises the error of the 4th call
\* after exactly 4 calls and 3 waits.
C23_RetryCeiling ==
    /\ Len(rCalls) <= max_attempts
    /\ \A i \in 1..Len(rCalls) :
           rCalls[i].ok =>
               /\ i = Len(rCalls)
               /\ rPc = "returned"
               /\ rResult = Some([raised |-> FALSE, value |-> rCalls[i].value,
                                  error |-> None])
    /\ (RetryEnded /\ \A i \in 1..Len(rCalls) : FailedTransient(i)) =>
           /\ Len(rCalls) = max_attempts
           /\ Len(rSleeps) = max_attempts - 1
           /\ rResult = Some([raised |-> TRUE, value |-> "",
                              error |-> rCalls[max_attempts].error])

\* C23 witness: four transient failures, the last one different from the
\* third, and the last one raised.
C23_Witness ==
    /\ rPc = "raised"
    /\ Len(rCalls) = 4
    /\ Len(rSleeps) = 3
    /\ rCalls[3].error[1].name = "RateLimitError"
    /\ rCalls[4].error[1].name = "APIStatusError"
    /\ rResult[1].error = rCalls[4].error

\* an error that is none of rate limiting, overload, 5xx and connection
\* error
OutsideTransientSet(e) ==
    /\ e.name \notin RetryableNames
    /\ IsNone(e.status_code) \/ e.status_code[1] \notin RetryableStatus

\* C24: a backend call that fails with an error outside the transient set
\* is the last call: the error is raised to the caller at once, on whichever
\* attempt it occurs, with no wait and no call after it.
C24_OnlyTransientRetried ==
    \A i \in 1..Len(rCalls) :
        (~rCalls[i].ok /\ OutsideTransientSet(rCalls[i].error[1])) =>
            /\ i = Len(rCalls)
            /\ rPc = "raised"
            /\ rResult = Some([raised |-> TRUE, value |-> "",
                               error |-> rCalls[i].error])
            /\ Len(rSleeps) = i - 1

\* C24 witness: a 400 on the first attempt raised after one call and no
\* wait.
C24_Witness ==
    /\ rPc = "raised"
    /\ Len(rCalls) = 1
    /\ rCalls[1].error[1].name = "BadRequestError"
    /\ rSleeps = <<>>

\* C25: the wait before retry k is base_delay * 2^(k-1), each wait double
\* the one before, 2, 4 and 8 seconds with the default base; there are at
\* most three waits and none follows the final attempt.
C25_ExponentialBackoff ==
    /\ Len(rSleeps) <= max_attempts - 1
    /\ \A k \in 1..Len(rSleeps) :
           /\ rSleeps[k] = rBase * (2 ^ (k - 1))
           /\ k > 1 => rSleeps[k] = 2 * rSleeps[k - 1]
    /\ (rBase = base_delay /\ Len(rSleeps) = 3) => rSleeps = <<2, 4, 8>>
    /\ RetryEnded => Len(rSleeps) = Len(rCalls) - 1

\* C25 witness: the default base, three waits of 2, 4 and 8 and the fourth
\* attempt made.
C25_Witness ==
    /\ rBase = base_delay
    /\ rSleeps = <<2, 4, 8>>
    /\ RetryEnded
    /\ Len(rCalls) = 4

\* C26: when the attempt of get_objective_formulation fails, the extractor
\* retries once with a fresh gateway call, so that an extractor whose error
\* reaches the caller has made 2 gateway calls.
C26_ExtractorRetriesOnce ==
    xPc = "raised" => xCalls = 2

\* C27: an exception raised by one solver's pipeline does not abort main.run,
\* leaves the other pipeline running to its own end, and the judge is still
\* called.
C27_FailureContained ==
    /\ [](mainPc # "aborted")
    /\ \A s \in Solvers :
           (task[s].pc = "raised") ~> (pc = "start" /\ \A o \in Solvers : Terminated(o))

\* C27 witness: OptiMUS raised in its Stage 1, OptiMind ran to its end and
\* returned a success, and the judge has been called.
C27_Witness ==
    /\ pc = "start"
    /\ task["optimus"].pc = "raised"
    /\ task["optimus"].step = 3
    /\ task["optimind"].pc = "returned"
    /\ task["optimind"].step = Len(OptimindWrites)
    /\ solver_ok = [optimus |-> FALSE, optimind |-> TRUE]

\* C28: compare_solutions starts only after both solver tasks have returned
\* or raised, in every interleaving of the two workers.
C28_JudgeWaitsForBoth ==
    pc # "idle" => \A s \in Solvers : Terminated(s)

\* C28 witness: a state in which one worker has finished and been handled,
\* the other is still writing, and the judge has not been started.
C28_Witness ==
    /\ handled = {"optimind"}
    /\ task["optimus"].pc = "running"
    /\ task["optimus"].step = 5
    /\ mainPc = "collect"
    /\ pc = "idle"

\* C29: every file the OptiMUS pipeline writes is in optimus_output, every
\* file the OptiMind pipeline writes is in optimind_output, and no file is
\* written by both.
C29_DisjointWrites ==
    /\ \A w \in written :
           /\ w.by = "optimus" => w.dir = "optimus_output"
           /\ w.by = "optimind" => w.dir = "optimind_output"
    /\ \A w1, w2 \in written :
           (w1.dir = w2.dir /\ w1.name = w2.name) => w1.by = w2.by

\* C29 witness: both workers are running and each has written its own
\* code_output.txt.
C29_Witness ==
    /\ \A s \in Solvers : task[s].pc = "running"
    /\ [by |-> "optimus", dir |-> "optimus_output", name |-> "code_output.txt"]
           \in written
    /\ [by |-> "optimind", dir |-> "optimind_output", name |-> "code_output.txt"]
           \in written

\* C30: while objective and constraint extraction run concurrently with the
\* shared logger, at most one thread at a time is inside a write (log or
\* reset) to the log file, and it is the thread that holds the lock.
C30_LogWritesExclusive ==
    /\ Cardinality({t \in Stage1Threads : logPc[t] \in InsideWrite \cup {"written"}}) <= 1
    /\ \A t \in Stage1Threads :
           logPc[t] \in InsideWrite \cup {"written"} => lock = Some(t)

\* C30 witness: the constraints thread is inside log with the lock, after a
\* line has been written, while the objective thread is still running.
C30_Witness ==
    /\ logPc["constraints"] = "in_log"
    /\ lock = Some("constraints")
    /\ logPc["objective"] = "running"
    /\ logFile # <<>>

\* both variants produced output and neither status is in {optimal, feasible}
BothFailed ==
    /\ Ok(optimus)
    /\ Ok(optimind)
    /\ ~Succeeded(optimus)
    /\ ~Succeeded(optimind)

\* a verdict that says both variants failed: it names no variant as the
\* winner, or one of its texts is the both-failed reason of Layer 1
FlagsBothFailed(verdict) ==
    \/ verdict.winner \notin {"optimus", "optimind"}
    \/ "both solvers failed" \in
           {verdict.reasoning, verdict.optimus_assessment, verdict.optimind_assessment}

\* C34: when both variants are available and both statuses are outside
\* {optimal, feasible}, Layer 1 returns no winner with a both-failed reason,
\* the LLM is called exactly once, compare_solutions does not raise (unless
\* the LLM cannot be reached), and the written verdict reports a non-success
\* status for both variants and carries an indication that both failed.
C34_BothFailedReported ==
    (BothFailed /\ fs.description /\ pc \notin {"start", "layer1"}) =>
        /\ prog = [winner |-> None, reason |-> "both solvers failed"]
        /\ pc = "raised" => error = "LLMError"
        /\ pc = "done" =>
               /\ llmCalls = 1
               /\ verdictFile[1].solvers.optimus.status # "success"
               /\ verdictFile[1].solvers.optimind.status # "success"
               /\ FlagsBothFailed(verdictFile[1])

\* C35: in compare_solutions the sanity-check override never fires: whenever
\* Layer 2 and Layer 3 are reached both variants are available and their
\* statuses are both inside or both outside {optimal, feasible}, so
\* _sanity_check returns the LLM's winner unchanged and no verdict results
\* from an override.
C35_OverrideNeverFires ==
    /\ (pc = "sanity" \/ Truthy(sanity)) =>
           /\ Ok(optimus)
           /\ Ok(optimind)
           /\ Succeeded(optimus) <=> Succeeded(optimind)
    /\ Truthy(sanity) =>
           /\ ~sanity[1].overridden
           /\ sanity[1].final = sanity[1].llm_winner
           /\ winner_name = Some(sanity[1].llm_winner)
    /\ Truthy(comparison) => IsNone(comparison[1].override_reason)

\* C35 witness: both variants failed, the LLM named OptiMind, Layer 3 ran
\* and the verdict names OptiMind.
C35_Witness ==
    /\ pc = "done"
    /\ BothFailed
    /\ Truthy(sanity)
    /\ sanity[1].llm_winner = "optimind"
    /\ verdictFile[1].winner = "optimind"

\* C37: in every written verdict whose winner is one of the two variant
\* names the top-level objective_value is the objective_value recorded for
\* that winner in the per-variant snapshot, and a per-variant status is
\* success exactly when that variant is available and its execution status
\* is optimal or feasible.
C37_VerdictSnapshotConsistent ==
    Truthy(verdictFile) =>
        LET v == verdictFile[1]
        IN  /\ v.winner \in {"optimus", "optimind"} =>
                   v.objective_value = v.solvers[v.winner].objective_value
            /\ v.solvers.optimus.status = "success" <=>
                   (Ok(optimus) /\ Succeeded(optimus))
            /\ v.solvers.optimind.status = "success" <=>
                   (Ok(optimind) /\ Succeeded(optimind))

\* C37 witness: a verdict for OptiMind with an objective value, OptiMUS
\* feasible and reported as success.
C37_Witness ==
    /\ Truthy(verdictFile)
    /\ verdictFile[1].winner = "optimind"
    /\ Truthy(verdictFile[1].objective_value)
    /\ StatusOf(optimus) = "feasible"
    /\ verdictFile[1].solvers.optimus.status = "success"

\* a is b with some lines left out, lines compared without their
\* surrounding blanks
RECURSIVE IsSubsequence(_, _)
IsSubsequence(a, b) ==
    IF a = <<>> THEN TRUE
    ELSE IF b = <<>> THEN FALSE
    ELSE IF StripLine(Head(a)) = StripLine(Head(b)) THEN IsSubsequence(Tail(a), Tail(b))
    ELSE IsSubsequence(a, Tail(b))

\* a line of a log that is solver noise: blank, a node-table or tabular
\* line, or one that begins with a noise prefix
IsNoiseLine(line) ==
    \/ line.body \in {"", "* 0 0 5.0", "0 0 | 5.0"}
    \/ \E p \in skip_patterns : line.body = p.body

\* C39: for every log, _trim_gurobi_output returns at most max_lines lines,
\* each a line of the original log in the original order, and when at least
\* one line of the log is not solver noise the result has no line that
\* starts with one of the fixed noise prefixes.
C39_TrimBoundedAndClean ==
    (pc = "returned" /\ Truthy(args.code_output)) =>
        LET original == args.code_output[1]
            trimmed == result[1][1]
        IN  /\ Len(trimmed) <= args.max_lines
            /\ IsSubsequence(trimmed, original)
            /\ (\E i \in 1..Len(original) : ~IsNoiseLine(original[i])) =>
                   \A j \in 1..Len(trimmed) :
                       \A p \in skip_patterns : ~StartsWith(trimmed[j], p)

\* C36: after the execute/repair loop has ended, the content of
\* output_solution.txt, and so the objective value run_pipeline reads back,
\* was written by the last program version that was executed, never by an
\* earlier attempt.
C36_NoStaleObjective ==
    (pc = "returned" /\ Truthy(ReadObjective(disk))) =>
        /\ Truthy(LastExecution.wrote)
        /\ disk.output_solution = LastExecution.wrote

\* C40: prepare_workspace with archive enabled clears the workspace only
\* after the archive copy is complete, and after it returns every file that
\* was in the workspace before the call is in an archive under the history
\* directory (the archive-limit step does not remove the archive just
\* created), while the workspace keeps its directory tree and has no files.
C40_NothingLost ==
    args.archive =>
        /\ (disk.workspace.files # args.before.files) => Truthy(disk.created)
        /\ pc = "returned" =>
               /\ \A f \in args.before.files :
                      \E a \in disk.history : f \in a.files
               /\ Truthy(disk.created) =>
                      disk.created[1] \in {a.name : a \in disk.history}
               /\ args.before.dirs \subseteq disk.workspace.dirs
               /\ disk.workspace.files = {}

\* the query of the model raised, or its response has no code block
GenerationFailed ==
    /\ pc \notin {"call", "query"}
    /\ error # "FileNotFoundError"
    /\ args.outcome.raised # "" \/ args.outcome.response = <<>>

\* C38: when the model query raises or the response contains no code block,
\* OptiMind's run_pipeline returns a result with success False and code None
\* without raising, no program file is written and no program is executed
\* or repaired.
C38_FailedGenerationDegrades ==
    GenerationFailed =>
        /\ pc \in {"extract", "returned"}
        /\ pc = "returned" =>
               /\ Truthy(result)
               /\ ~result[1].success
               /\ IsNone(result[1].code)
        /\ IsNone(disk.canonical)
        /\ \A k \in 1..DEBUG_MAX_RETRIES : IsNone(disk.versions[k])
        /\ execs = <<>>
        /\ fixerCalls = 0

\* C38 witness: the model answered without a code block; the response was
\* saved and the degraded result returned.
C38_Witness ==
    /\ pc = "returned"
    /\ args.outcome.raised = ""
    /\ args.outcome.response = <<>>
    /\ disk.optimind_response = Some(<<>>)
    /\ result = Some(Degraded(<<>>))

\* C33: on every response text, also one without braces, with unbalanced
\* braces, or with "//" and no newline after it, extract_json_from_end ends:
\* it returns the decoded structure or raises; it never loops forever.
C33_ExtractorTerminates == <>(jsonPc \in {"returned", "raised"})

\* a snapshot has been saved
Saved(name) == Truthy(files[name])

\* C31: no stage of the OptiMUS pipeline starts before the snapshot of the
\* stage before it is saved: the extraction after the first snapshot (the
\* constraint extraction, where it is a stage of its own, after the snapshot
\* with the objective),
\* constraint formulation after a snapshot with the objective and the
\* constraint descriptions, objective formulation after one with the
\* variables, code generation after one with the objective formulation,
\* assembly and execution after one with the code.
C31_StagesOrdered ==
    /\ \A stage \in started : Saved(StageLoads(stage))
    /\ "extract_constraints" \in started =>
           Truthy(load_state(files[StageLoads("extract_constraints")]).objective)
    /\ "formulate_constraints" \in started =>
           /\ Truthy(load_state(files[StageLoads("formulate_constraints")]).objective)
           /\ Truthy(load_state(files[StageLoads("formulate_constraints")]).constraints)
    /\ "formulate_objective" \in started =>
           Truthy(load_state(files[StageLoads("formulate_objective")]).variables)
    /\ "get_codes" \in started =>
           Truthy(load_state(files[StageLoads("get_codes")]).objective[1].formulation)
    /\ "assemble" \in started =>
           Truthy(load_state(files[StageLoads("assemble")]).objective[1].code)

\* C31 witness: the pipeline that extracts in a pool has returned, every
\* stage has started and code.py is written.
C31_Witness ==
    /\ pipePc = "returned"
    /\ args.variant = "pool"
    /\ started = SequentialStages \cup {"extract"}
    /\ Saved("code.py")

\* C32: after create_state no parameter of the state has a value, data.json
\* maps the same symbols to the values of params.json, and every snapshot of
\* the run has the description and the parameters of the first, without
\* values.
C32_ValuesStripped ==
    Truthy(state) =>
        /\ \A k \in DOMAIN state[1].parameters :
               "value" \notin DOMAIN state[1].parameters[k]
        /\ Saved("data.json")
        /\ DOMAIN files["data.json"][1] = DOMAIN args.params
        /\ \A k \in DOMAIN args.params :
               files["data.json"][1][k] = args.params[k].value
        /\ \A n \in Snapshots :
               Saved(n) =>
                   /\ load_state(files[n]).description = args.desc[1]
                   /\ DOMAIN load_state(files[n]).parameters = DOMAIN args.params
                   /\ \A k \in DOMAIN args.params :
                          /\ "value" \notin DOMAIN load_state(files[n]).parameters[k]
                          /\ load_state(files[n]).parameters[k].definition =
                                 args.params[k].definition
                   /\ load_state(files[n]).parameters =
                          load_state(files["state_1_params.json"]).parameters

\* C32 witness: a run with two parameters has saved its last snapshot.
C32_Witness ==
    /\ DOMAIN args.params = ParamSymbols
    /\ Saved("state_6_code.json")
    /\ files["data.json"] = Some([k \in ParamSymbols |-> args.params[k].value])
====
